---------------------------- MODULE Spec2Model ----------------------------
(***************************************************************************)
(* A model of the memcomparable codec (src/src/ser.rs, src/src/de.rs).     *)
(*                                                                         *)
(* Representation of the Rust data:                                        *)
(*   - a byte is an integer in 0..255; a Vec<u8>/Buf is a sequence of them *)
(*   - a fixed-width integer of n bytes is its base-256 numeral, most      *)
(*     significant digit first: value = d1*256^(n-1) + ... + dn, with      *)
(*     d2..dn in 0..255 and d1 in 0..255 (unsigned) or -128..127 (signed). *)
(*     (The model checker's integers are 32 bits wide, so a u64 or an i128 *)
(*     cannot be one number; the numeral keeps every width exact.)         *)
(*   - a char is its code point; a str is its UTF-8 bytes                  *)
(*   - a type is a tagged tuple <<"u8">>, <<"opt", T>>, <<"seq", T>>,      *)
(*     <<"tuple", <<T1, .., Tn>>>>, <<"enum", <<V0, .., Vk>>>> ...; a      *)
(*     value is a pair <<T, d>> of a type and the data of that type        *)
(***************************************************************************)
EXTENDS Integers, Sequences, FiniteSets, TLC

Byte == 0..255

Min(a, b) == IF a < b THEN a ELSE b

\* n copies of b
Rep(b, n) == [i \in 1..n |-> b]

\* Ord for [u8] and for numerals of one width: lexicographic, a proper prefix
\* is smaller.  -1, 0, 1 stand for Less, Equal, Greater.
RECURSIVE LexCmp(_, _)
LexCmp(a, b) ==
    IF a = <<>> THEN (IF b = <<>> THEN 0 ELSE -1)
    ELSE IF b = <<>> THEN 1
    ELSE IF Head(a) < Head(b) THEN -1
    ELSE IF Head(a) > Head(b) THEN 1
    ELSE LexCmp(Tail(a), Tail(b))

(***************************************************************************)
(* Machine integers as numerals.                                           *)
(***************************************************************************)

\* `v as uN`: the two's-complement bit pattern of v, as an unsigned numeral
AsUnsigned(v) == [v EXCEPT ![1] = @ % 256]

\* `u as iN`: the signed reading of an unsigned bit pattern
AsSigned(u) == [u EXCEPT ![1] = IF @ >= 128 THEN @ - 256 ELSE @]

\* `u ^ (1 << (N - 1))`: toggle the most significant bit of the pattern
XorMsb(u) == [u EXCEPT ![1] = IF @ >= 128 THEN @ - 128 ELSE @ + 128]

\* `!b` on one byte
NotByte(b) == 255 - b

\* `!u` on a whole pattern: every bit, hence every digit, complemented
NotUint(u) == [i \in 1..Len(u) |-> NotByte(u[i])]

\* `c as u32` for a char c (a code point, at most 0x10FFFF)
CharAsU32(c) == <<c \div 16777216, (c \div 65536) % 256, (c \div 256) % 256, c % 256>>

(***************************************************************************)
(* ser.rs: MaybeFlip, the flipping wrapper around the output buffer.       *)
(* A Serializer is [output |-> bytes written so far, flip |-> BOOLEAN,      *)
(* result |-> what the serialize call under way returns: <<"Ok">>,         *)
(* <<"Err", e>> for Err(e), or <<"panic">> when it panicked].              *)
(***************************************************************************)

Serializer_new == [output |-> <<>>, flip |-> FALSE, result |-> <<"Ok">>]

\* the call under way has returned Err, or panicked: `?` hands that on
Failed(s) == s.result # <<"Ok">>

\* return Err(e)
Fail(s, e) == [s EXCEPT !.result = <<"Err", e>>]

\* a failed assert!
AssertFailed(s) == [s EXCEPT !.result = <<"panic">>]

Serializer_set_reverse(s, reverse) == [s EXCEPT !.flip = reverse]

Serializer_into_inner(s) == s.output

\* put_u8 that ignores the flip bit
put_u8_unflipped(s, value) == [s EXCEPT !.output = Append(@, value)]

\* def_method!(put_u8, u8)
put_u8(s, value) ==
    [s EXCEPT !.output = Append(@, IF s.flip THEN NotByte(value) ELSE value)]

\* put_u16 .. put_u128 that ignore the flip bit
put_uint_unflipped(s, value) == [s EXCEPT !.output = @ \o value]

\* def_method!(put_u16 .. put_u128): the whole integer is complemented when
\* flip is set, and BufMut writes it big-endian
put_uint(s, value) ==
    [s EXCEPT !.output = @ \o (IF s.flip THEN NotUint(value) ELSE value)]

put_u16(s, value) == put_uint(s, value)

put_u32(s, value) == put_uint(s, value)

put_u64(s, value) == put_uint(s, value)

put_u128(s, value) == put_uint(s, value)

\* put_slice that ignores the flip bit
put_slice_unflipped(s, src) == [s EXCEPT !.output = @ \o src]

RECURSIVE put_slice(_, _)
put_slice(s, src) ==
    IF src = <<>> THEN s
    ELSE LET val == IF s.flip THEN NotByte(Head(src)) ELSE Head(src)
         IN  put_slice([s EXCEPT !.output = Append(@, val)], Tail(src))

\* put_bytes that ignores the flip bit
put_bytes_unflipped(s, val, cnt) == [s EXCEPT !.output = @ \o Rep(val, cnt)]

put_bytes(s, val, cnt) ==
    LET v == IF s.flip THEN NotByte(val) ELSE val
    IN  [s EXCEPT !.output = @ \o Rep(v, cnt)]

(***************************************************************************)
(* ser.rs: impl ser::Serializer, the scalars.                              *)
(***************************************************************************)

serialize_u8(s, v) == put_u8(s, v[1])

serialize_u16(s, v) == put_u16(s, v)

serialize_u32(s, v) == put_u32(s, v)

serialize_u64(s, v) == put_u64(s, v)

serialize_u128(s, v) == put_u128(s, v)

serialize_bool(s, v) == serialize_u8(s, <<IF v THEN 1 ELSE 0>>)

serialize_i8(s, v) == serialize_u8(s, XorMsb(AsUnsigned(v)))

serialize_i16(s, v) == serialize_u16(s, XorMsb(AsUnsigned(v)))

serialize_i32(s, v) == serialize_u32(s, XorMsb(AsUnsigned(v)))

\* serialize_i64 that forgets the sign bit
serialize_i64_unsigned(s, v) == serialize_u64(s, AsUnsigned(v))

serialize_i64(s, v) == serialize_u64(s, XorMsb(AsUnsigned(v)))

serialize_i128(s, v) == serialize_u128(s, XorMsb(AsUnsigned(v)))

\* A float is its IEEE-754 bit pattern (to_bits), a numeral of 4 or 8 bytes:
\* the sign bit, then 8 (f32) or 11 (f64) exponent bits, then the fraction.

\* the pattern with the sign bit cleared
FloatAbs(v) == <<v[1] % 128>> \o Tail(v)

\* f32::is_nan / f64::is_nan: exponent all ones, fraction not zero
is_nan(v) ==
    LET a == FloatAbs(v)
    IN  IF Len(v) = 4 THEN LexCmp(a, <<127, 128, 0, 0>>) = 1
        ELSE LexCmp(a, <<127, 240, 0, 0, 0, 0, 0, 0>>) = 1

\* v == 0.0: true of +0.0 and of -0.0
is_zero(v) == FloatAbs(v) = Rep(0, Len(v))

is_sign_positive(v) == v[1] < 128

\* f32::NAN = 0x7fc00000
f32_NAN == <<127, 192, 0, 0>>

\* f64::NAN = 0x7ff8000000000000
f64_NAN == <<127, 248, 0, 0, 0, 0, 0, 0>>

\* floats written as signed integers are: the sign bit toggled, no more
float_to_ordered_as_int(v, NAN) ==
    LET n == IF is_nan(v) THEN NAN ELSE IF is_zero(v) THEN Rep(0, Len(v)) ELSE v
    IN  <<(n[1] + 128) % 256>> \o Tail(n)

\* the float with NaN and zero normalised, then `u | (1 << (N - 1))` when
\* sign-positive, `!u` otherwise
float_to_ordered(v, NAN) ==
    LET n == IF is_nan(v) THEN NAN ELSE IF is_zero(v) THEN Rep(0, Len(v)) ELSE v
    IN  IF is_sign_positive(n) THEN <<n[1] + 128>> \o Tail(n) ELSE NotUint(n)

serialize_f32(s, v) == put_u32(s, float_to_ordered(v, f32_NAN))

serialize_f64(s, v) == put_u64(s, float_to_ordered(v, f64_NAN))

serialize_char(s, v) == serialize_u32(s, CharAsU32(v))

\* the k-th chunk of v.chunks(8), k = 1, 2, ...
Chunk(v, k) == SubSeq(v, 8 * (k - 1) + 1, Min(8 * k, Len(v)))

\* serialize_bytes that writes no padding
serialize_bytes_pad_none(s, chunk) == s

\* the zero padding of a chunk shorter than 8 bytes
serialize_bytes_pad(s, chunk) ==
    IF Len(chunk) # 8 THEN put_bytes(s, 0, 8 - Len(chunk)) ELSE s

\* a trailer of 9 after every full group, the last one included
serialize_bytes_extra_full(v, chunk, len) == IF Len(chunk) = 8 THEN 9 ELSE Len(chunk)

\* the byte after a group: the count of significant bytes of the last group,
\* 9 for a group that is followed by more data
serialize_bytes_extra(v, chunk, len) == IF len = Len(v) THEN Len(chunk) ELSE 9

\* the body of `for chunk in v.chunks(8)`, from the k-th chunk on; len is the
\* number of bytes of v written before it
RECURSIVE serialize_bytes_chunks(_, _, _, _)
serialize_bytes_chunks(s, v, k, len) ==
    IF 8 * (k - 1) >= Len(v) THEN s
    ELSE LET chunk == Chunk(v, k)
             s1    == serialize_bytes_pad(put_slice(s, chunk), chunk)
             len1  == len + Len(chunk)
             extra == serialize_bytes_extra(v, chunk, len1)
         IN  serialize_bytes_chunks(put_u8(s1, extra), v, k + 1, len1)

serialize_bytes(s, v) ==
    serialize_bytes_chunks(put_u8(s, IF v # <<>> THEN 1 ELSE 0), v, 1, 0)

serialize_str(s, v) == serialize_bytes(s, v)

(***************************************************************************)
(* ser.rs: impl ser::Serializer, the composites.  Serialize(s, T, d) is    *)
(* `value.serialize(&mut serializer)` for a value of type T with data d:   *)
(* the calls serde's Serialize implementations make on the Serializer.     *)
(***************************************************************************)

RECURSIVE Serialize(_, _, _)

serialize_none(s) == serialize_u8(s, <<0>>)

serialize_some(s, T, d) == Serialize(serialize_u8(s, <<1>>), T, d)

serialize_unit(s) == s

serialize_unit_struct(s) == serialize_unit(s)

\* u8::MAX
U8_MAX == 255

\* assert!(variant_index <= u8::MAX as u32, "too many variants")
serialize_unit_variant(s, variant_index) ==
    IF ~(variant_index <= U8_MAX) THEN AssertFailed(s)
    ELSE serialize_u8(s, <<variant_index % 256>>)

serialize_newtype_struct(s, T, d) == Serialize(s, T, d)

serialize_newtype_variant(s, variant_index, T, d) ==
    IF ~(variant_index <= U8_MAX) THEN AssertFailed(s)
    ELSE Serialize(serialize_u8(s, <<variant_index % 256>>), T, d)

serialize_seq(s) == s

serialize_tuple(s) == s

serialize_tuple_struct(s) == s

serialize_tuple_variant(s, variant_index) ==
    IF ~(variant_index <= U8_MAX) THEN AssertFailed(s)
    ELSE serialize_u8(s, <<variant_index % 256>>)

\* serialize_map that starts a map as a sequence is started
serialize_map_as_seq(s) == s

serialize_map(s) == Fail(s, <<"NotSupported", "map">>)

serialize_struct(s) == s

serialize_struct_variant(s, variant_index) ==
    IF ~(variant_index <= U8_MAX) THEN AssertFailed(s)
    ELSE serialize_u8(s, <<variant_index % 256>>)

\* impl ser::SerializeSeq
SerializeSeq_serialize_element(s, T, d) == Serialize(serialize_u8(s, <<1>>), T, d)

\* a sequence closed by a byte above the element marker
SerializeSeq_end_high(s) == serialize_u8(s, <<255>>)

SerializeSeq_end(s) == serialize_u8(s, <<0>>)

\* impl ser::SerializeTuple
SerializeTuple_serialize_element(s, T, d) == Serialize(s, T, d)

\* a tuple closed by a terminator byte, as a sequence is
SerializeTuple_end_terminated(s) == serialize_u8(s, <<0>>)

SerializeTuple_end(s) == s

\* impl ser::SerializeTupleStruct
SerializeTupleStruct_serialize_field(s, T, d) == Serialize(s, T, d)

SerializeTupleStruct_end(s) == s

\* impl ser::SerializeTupleVariant
SerializeTupleVariant_serialize_field(s, T, d) == Serialize(s, T, d)

SerializeTupleVariant_end(s) == s

\* impl ser::SerializeStruct
SerializeStruct_serialize_field(s, T, d) == Serialize(s, T, d)

SerializeStruct_end(s) == s

\* impl ser::SerializeStructVariant
SerializeStructVariant_serialize_field(s, T, d) == Serialize(s, T, d)

SerializeStructVariant_end(s) == s

\* the elements of a sequence, from the i-th on
RECURSIVE SerializeElements(_, _, _, _)
SerializeElements(s, T, ds, i) ==
    IF i > Len(ds) \/ Failed(s) THEN s
    ELSE SerializeElements(SerializeSeq_serialize_element(s, T, ds[i]), T, ds, i + 1)

\* the fields of a tuple, tuple struct, struct or variant, from the i-th on
RECURSIVE SerializeFields(_, _, _, _, _)
SerializeFields(s, kind, Ts, ds, i) ==
    IF i > Len(ds) \/ Failed(s) THEN s
    ELSE LET s1 == CASE kind = "tuple" -> SerializeTuple_serialize_element(s, Ts[i], ds[i])
                     [] kind = "tuple_struct" -> SerializeTupleStruct_serialize_field(s, Ts[i], ds[i])
                     [] kind = "tuple_variant" -> SerializeTupleVariant_serialize_field(s, Ts[i], ds[i])
                     [] kind = "struct" -> SerializeStruct_serialize_field(s, Ts[i], ds[i])
                     [] kind = "struct_variant" -> SerializeStructVariant_serialize_field(s, Ts[i], ds[i])
         IN  SerializeFields(s1, kind, Ts, ds, i + 1)

\* an enum value: d = <<variant index, payload>>, V the variant's declaration
SerializeVariant(s, V, d) ==
    CASE V[1] = "unit" -> serialize_unit_variant(s, d[1])
      [] V[1] = "newtype" -> serialize_newtype_variant(s, d[1], V[2], d[2])
      [] V[1] = "tuple" ->
            LET s1 == SerializeFields(serialize_tuple_variant(s, d[1]),
                                      "tuple_variant", V[2], d[2], 1)
            IN  IF Failed(s1) THEN s1 ELSE SerializeTupleVariant_end(s1)
      [] V[1] = "struct" ->
            LET s1 == SerializeFields(serialize_struct_variant(s, d[1]),
                                      "struct_variant", V[2], d[2], 1)
            IN  IF Failed(s1) THEN s1 ELSE SerializeStructVariant_end(s1)

Serialize(s, T, d) ==
    CASE T[1] = "bool" -> serialize_bool(s, d)
      [] T[1] = "u8" -> serialize_u8(s, d)
      [] T[1] = "u16" -> serialize_u16(s, d)
      [] T[1] = "u32" -> serialize_u32(s, d)
      [] T[1] = "u64" -> serialize_u64(s, d)
      [] T[1] = "u128" -> serialize_u128(s, d)
      [] T[1] = "i8" -> serialize_i8(s, d)
      [] T[1] = "i16" -> serialize_i16(s, d)
      [] T[1] = "i32" -> serialize_i32(s, d)
      [] T[1] = "i64" -> serialize_i64(s, d)
      [] T[1] = "i128" -> serialize_i128(s, d)
      [] T[1] = "char" -> serialize_char(s, d)
      [] T[1] = "str" -> serialize_str(s, d)
      [] T[1] = "bytes" -> serialize_bytes(s, d)
      [] T[1] = "opt" -> IF d = <<>> THEN serialize_none(s) ELSE serialize_some(s, T[2], d[1])
      [] T[1] = "unit" -> serialize_unit(s)
      [] T[1] = "unit_struct" -> serialize_unit_struct(s)
      [] T[1] = "newtype_struct" -> serialize_newtype_struct(s, T[2], d)
      [] T[1] = "f32" -> serialize_f32(s, d)
      [] T[1] = "f64" -> serialize_f64(s, d)
      [] T[1] = "seq" ->
            LET s1 == SerializeElements(serialize_seq(s), T[2], d, 1)
            IN  IF Failed(s1) THEN s1 ELSE SerializeSeq_end(s1)
      [] T[1] = "tuple" ->
            LET s1 == SerializeFields(serialize_tuple(s), "tuple", T[2], d, 1)
            IN  IF Failed(s1) THEN s1 ELSE SerializeTuple_end(s1)
      [] T[1] = "tuple_struct" ->
            LET s1 == SerializeFields(serialize_tuple_struct(s), "tuple_struct", T[2], d, 1)
            IN  IF Failed(s1) THEN s1 ELSE SerializeTupleStruct_end(s1)
      [] T[1] = "struct" ->
            LET s1 == SerializeFields(serialize_struct(s), "struct", T[2], d, 1)
            IN  IF Failed(s1) THEN s1 ELSE SerializeStruct_end(s1)
      [] T[1] = "enum" -> SerializeVariant(s, T[2][d[1] + 1], d)
      \* the Serialize of a map type begins with serialize_map(Some(len))?
      [] T[1] = "map" -> serialize_map(s)

\* to_vec: a new Serializer, the value serialized, the buffer unwrapped
to_vec(T, d) == Serializer_into_inner(Serialize(Serializer_new, T, d))

(***************************************************************************)
(* decimal.rs, ser.rs: the Decimal type and Serializer::serialize_decimal.  *)
(* A Decimal is <<"NegInf">>, <<"Inf">>, <<"NaN">> or                      *)
(* <<"Normalized", neg, m, scale>>: a rust_decimal::Decimal of value       *)
(* (-1)^neg * m / 10^scale, where the magnitude m of the 96-bit mantissa   *)
(* is a decimal numeral (a sequence of digits 0..9, most significant       *)
(* first, no leading zero, <<>> for 0) and scale is in 0..28.              *)
(***************************************************************************)

\* rust_decimal::Decimal::is_zero
Decimal_is_zero(d) == d[3] = <<>>

\* rust_decimal::Decimal::is_sign_positive
Decimal_is_sign_positive(d) == ~d[2]

\* decimal_e_m that keeps the trailing zeros of the mantissa
TrailingZeros_kept(m) == 0

\* how often `while mantissa % 10 == 0 && mantissa != 0` divides by 10
RECURSIVE TrailingZeros(_)
TrailingZeros(m) ==
    IF m = <<>> \/ m[Len(m)] # 0 THEN 0
    ELSE 1 + TrailingZeros(SubSeq(m, 1, Len(m) - 1))

\* the base-100 digits taken from the most significant end of the mantissa,
\* the last one filled up with a zero
Base100_from_left(m) ==
    LET p == IF Len(m) % 2 = 1 THEN m \o <<0>> ELSE m
    IN  [k \in 1..(Len(p) \div 2) |-> 10 * p[2 * k - 1] + p[2 * k]]

\* the digits `mantissa % 100` peels off until mantissa is 0, in the order
\* they stand after byte_array.reverse(): most significant first
Base100(m) ==
    LET p == IF Len(m) % 2 = 1 THEN <<0>> \o m ELSE m
    IN  [k \in 1..(Len(p) \div 2) |-> 10 * p[2 * k - 1] + p[2 * k]]

\* decimal_e_m: <<the base-100 exponent, the significand bytes>>
decimal_e_m(decimal) ==
    IF Decimal_is_zero(decimal) THEN <<0, <<>>>>
    ELSE LET mantissa  == decimal[3]
             prec      == Len(mantissa)
             e10       == prec - decimal[4]
             e100      == IF e10 >= 0 THEN (e10 + 1) \div 2 ELSE 0 - ((0 - e10) \div 2)
             zeros     == TrailingZeros(mantissa)
             digit_num == (IF e10 = 2 * e100 THEN prec ELSE prec + 1) - zeros
             stripped  == SubSeq(mantissa, 1, prec - zeros)
             shifted   == IF digit_num % 2 = 1 THEN Append(stripped, 0) ELSE stripped
             digits    == Base100(shifted)
             n         == Len(digits)
         IN  <<e100, [k \in 1..n |-> IF k = n THEN digits[k] * 2 ELSE digits[k] * 2 + 1]>>

\* the flag of a negative value below 1/100 in magnitude, its exponent byte
\* complemented as a positive value's is
decimal_flag_negative_small_complemented(s, exponent) ==
    put_u8(put_u8(s, 20), NotByte(0 - exponent))

\* `_ =>` of a negative value: 0x14, then `-exponent as u8`
decimal_flag_negative_small(s, exponent) == put_u8(put_u8(s, 20), 0 - exponent)

\* the flag byte, and the exponent byte when there is one, of a positive value
decimal_flag_positive(s, exponent) ==
    IF exponent >= 11 THEN put_u8(put_u8(s, 34), exponent)
    ELSE IF exponent >= 0 THEN put_u8(s, 23 + exponent)
    ELSE put_u8(put_u8(s, 22), NotByte(0 - exponent))

\* and of a negative value
decimal_flag_negative(s, exponent) ==
    IF exponent >= 11 THEN put_u8(put_u8(s, 8), NotByte(exponent))
    ELSE IF exponent >= 0 THEN put_u8(s, 19 - exponent)
    ELSE decimal_flag_negative_small(s, exponent)

\* for b in significand { put_u8(!b) }
RECURSIVE put_significand_complemented(_, _)
put_significand_complemented(s, significand) ==
    IF significand = <<>> THEN s
    ELSE put_significand_complemented(put_u8(s, NotByte(Head(significand))),
                                      Tail(significand))

serialize_decimal(s, decimal) ==
    CASE decimal[1] = "NaN" -> put_u8(s, 6)
      [] decimal[1] = "NegInf" -> put_u8(s, 7)
      [] decimal[1] = "Inf" -> put_u8(s, 35)
      [] decimal[1] = "Normalized" ->
            IF Decimal_is_zero(decimal) THEN put_u8(s, 21)
            ELSE LET em          == decimal_e_m(decimal)
                     exponent    == em[1]
                     significand == em[2]
                 IN  IF Decimal_is_sign_positive(decimal)
                     THEN put_slice(decimal_flag_positive(s, exponent), significand)
                     ELSE put_significand_complemented(
                              decimal_flag_negative(s, exponent), significand)

\* Decimal::to_vec
Decimal_to_vec(decimal) == Serializer_into_inner(serialize_decimal(Serializer_new, decimal))

(***************************************************************************)
(* de.rs: the Deserializer.  A Deserializer is                             *)
(*   [input |-> the bytes not yet read, flip |-> BOOLEAN,                  *)
(*    input_len |-> the length of the input at construction].              *)
(* Every operation returns [de |-> the Deserializer after it, st, v]:      *)
(*   st = "ok"    and v the value returned,                                *)
(*   st = "err"   and v the Error returned,                                *)
(*   st = "panic" when the Buf ran out of bytes (bytes::Buf panics).       *)
(***************************************************************************)

BYTES_CHUNK_SIZE == 8

BYTES_CHUNK_UNIT_SIZE == BYTES_CHUNK_SIZE + 1

Ok(de, v) == [de |-> de, st |-> "ok", v |-> v]

\* an error that leaves the Deserializer with its flip bit cleared
Err_unflipped(de, e) == [de |-> [de EXCEPT !.flip = FALSE], st |-> "err", v |-> e]

Err(de, e) == [de |-> de, st |-> "err", v |-> e]

Panic(de) == [de |-> de, st |-> "panic", v |-> <<"panic">>]

\* Deserializer::new that does not capture the length of the input
Deserializer_new_uncounted(input) == [input |-> input, flip |-> FALSE, input_len |-> 0]

Deserializer_new(input) == [input |-> input, flip |-> FALSE, input_len |-> Len(input)]

Deserializer_set_reverse(de, reverse) == [de EXCEPT !.flip = reverse]

Deserializer_has_remaining(de) == Len(de.input) > 0

Deserializer_position(de) == de.input_len - Len(de.input)

Deserializer_advance(de, cnt) ==
    IF cnt > Len(de.input) THEN Panic(de)
    ELSE Ok([de EXCEPT !.input = SubSeq(@, cnt + 1, Len(@))], <<>>)

MaybeFlip_is_empty(de) == Len(de.input) = 0

\* def_method!(get_u8, u8)
get_u8(de) ==
    IF Len(de.input) < 1 THEN Panic(de)
    ELSE LET v == Head(de.input)
         IN  Ok([de EXCEPT !.input = Tail(@)], IF de.flip THEN NotByte(v) ELSE v)

\* get_u16 .. get_u128 that ignore the flip bit
get_uint_unflipped(de, n) ==
    IF Len(de.input) < n THEN Panic(de)
    ELSE Ok([de EXCEPT !.input = SubSeq(@, n + 1, Len(@))], SubSeq(de.input, 1, n))

\* def_method!(get_u16 .. get_u128): n bytes read big-endian, complemented
\* as a whole when flip is set
get_uint(de, n) ==
    IF Len(de.input) < n THEN Panic(de)
    ELSE LET v == SubSeq(de.input, 1, n)
         IN  Ok([de EXCEPT !.input = SubSeq(@, n + 1, Len(@))],
                IF de.flip THEN NotUint(v) ELSE v)

get_u16(de) == get_uint(de, 2)

get_u32(de) == get_uint(de, 4)

get_u64(de) == get_uint(de, 8)

get_u128(de) == get_uint(de, 16)

\* copy_to_slice into a dst of n bytes
copy_to_slice(de, n) ==
    IF Len(de.input) < n THEN Panic(de)
    ELSE LET dst == SubSeq(de.input, 1, n)
         IN  Ok([de EXCEPT !.input = SubSeq(@, n + 1, Len(@))],
                IF de.flip THEN [i \in 1..n |-> NotByte(dst[i])] ELSE dst)

\* the loop of read_bytes refusing a last group whose padding is not zero
RECURSIVE read_bytes_loop_padded(_, _)
read_bytes_loop_padded(de, bytes) ==
    LET c == copy_to_slice(de, BYTES_CHUNK_UNIT_SIZE)
    IN  IF c.st # "ok" THEN c
        ELSE LET chunk == c.v
                 len   == chunk[9]
             IN  IF len \in 1..8
                 THEN IF \E i \in (len + 1)..8 : chunk[i] # 0
                      THEN Err(c.de, <<"InvalidBytesEncoding", len>>)
                      ELSE Ok(c.de, bytes \o SubSeq(chunk, 1, len))
                 ELSE IF len = 9
                      THEN read_bytes_loop_padded(c.de, bytes \o SubSeq(chunk, 1, 8))
                 ELSE Err(c.de, <<"InvalidBytesEncoding", len>>)

\* the loop of read_bytes; bytes is what the groups read so far hold
RECURSIVE read_bytes_loop(_, _)
read_bytes_loop(de, bytes) ==
    LET c == copy_to_slice(de, BYTES_CHUNK_UNIT_SIZE)
    IN  IF c.st # "ok" THEN c
        ELSE LET chunk == c.v
                 len   == chunk[9]
             IN  IF len \in 1..8 THEN Ok(c.de, bytes \o SubSeq(chunk, 1, len))
                 ELSE IF len = 9 THEN read_bytes_loop(c.de, bytes \o SubSeq(chunk, 1, 8))
                 ELSE Err(c.de, <<"InvalidBytesEncoding", len>>)

read_bytes(de) ==
    LET r == get_u8(de)
    IN  IF r.st # "ok" THEN r
        ELSE IF r.v = 0 THEN Ok(r.de, <<>>)
        ELSE IF r.v = 1 THEN read_bytes_loop(r.de, <<>>)
        ELSE Err(r.de, <<"InvalidBytesEncoding", r.v>>)

\* the loop of skip_bytes counting a full group as the 9 bytes it takes
RECURSIVE skip_bytes_loop_unit(_, _)
skip_bytes_loop_unit(de, total_len) ==
    LET a == Deserializer_advance(de, BYTES_CHUNK_SIZE)
    IN  IF a.st # "ok" THEN a
        ELSE LET r == get_u8(a.de)
             IN  IF r.st # "ok" THEN r
                 ELSE IF r.v \in 1..8 THEN Ok(r.de, total_len + r.v)
                 ELSE IF r.v = 9
                      THEN skip_bytes_loop_unit(r.de, total_len + BYTES_CHUNK_UNIT_SIZE)
                 ELSE Err(r.de, <<"InvalidBytesEncoding", r.v>>)

\* the loop of skip_bytes
RECURSIVE skip_bytes_loop(_, _)
skip_bytes_loop(de, total_len) ==
    LET a == Deserializer_advance(de, BYTES_CHUNK_SIZE)
    IN  IF a.st # "ok" THEN a
        ELSE LET r == get_u8(a.de)
             IN  IF r.st # "ok" THEN r
                 ELSE IF r.v \in 1..8 THEN Ok(r.de, total_len + r.v)
                 ELSE IF r.v = 9 THEN skip_bytes_loop(r.de, total_len + 8)
                 ELSE Err(r.de, <<"InvalidBytesEncoding", r.v>>)

skip_bytes(de) ==
    LET r == get_u8(de)
    IN  IF r.st # "ok" THEN r
        ELSE IF r.v = 0 THEN Ok(r.de, 0)
        ELSE IF r.v = 1 THEN skip_bytes_loop(r.de, 0)
        ELSE Err(r.de, <<"InvalidBytesEncoding", r.v>>)

(***************************************************************************)
(* de.rs: impl de::Deserializer, the scalars.                              *)
(***************************************************************************)

\* deserialize_bool that takes every byte but 0 for true
deserialize_bool_nonzero(de) ==
    LET r == get_u8(de)
    IN  IF r.st # "ok" THEN r ELSE Ok(r.de, r.v # 0)

deserialize_bool(de) ==
    LET r == get_u8(de)
    IN  IF r.st # "ok" THEN r
        ELSE IF r.v = 1 THEN Ok(r.de, TRUE)
        ELSE IF r.v = 0 THEN Ok(r.de, FALSE)
        ELSE Err(r.de, <<"InvalidBoolEncoding", r.v>>)

\* a signed decode that forgets to toggle the top bit back
deserialize_signed_untoggled(r) == IF r.st # "ok" THEN r ELSE Ok(r.de, AsSigned(r.v))

\* the signed integers: the unsigned pattern with its top bit toggled, read
\* as a signed value
deserialize_signed(r) == IF r.st # "ok" THEN r ELSE Ok(r.de, AsSigned(XorMsb(r.v)))

deserialize_i8(de) ==
    LET r == get_u8(de)
    IN  deserialize_signed(IF r.st # "ok" THEN r ELSE Ok(r.de, <<r.v>>))

deserialize_i16(de) == deserialize_signed(get_u16(de))

deserialize_i32(de) == deserialize_signed(get_u32(de))

deserialize_i64(de) == deserialize_signed(get_u64(de))

deserialize_i128(de) == deserialize_signed(get_u128(de))

deserialize_u8(de) ==
    LET r == get_u8(de)
    IN  IF r.st # "ok" THEN r ELSE Ok(r.de, <<r.v>>)

deserialize_u16(de) == get_u16(de)

deserialize_u32(de) == get_u32(de)

deserialize_u64(de) == get_u64(de)

deserialize_u128(de) == get_u128(de)

\* `u & (1 << (N - 1)) != 0` ? `u & !(1 << (N - 1))` : `!u`, then from_bits
float_from_ordered(r) ==
    IF r.st # "ok" THEN r
    ELSE Ok(r.de, IF r.v[1] >= 128 THEN <<r.v[1] - 128>> \o Tail(r.v) ELSE NotUint(r.v))

deserialize_f32(de) == float_from_ordered(get_u32(de))

deserialize_f64(de) == float_from_ordered(get_u64(de))

\* char::from_u32: the code point of a u32 that is a Unicode scalar value
\* (at most 0x10FFFF and no surrogate), -1 for any other
char_from_u32(u) ==
    IF u[1] # 0 THEN -1
    ELSE LET c == u[2] * 65536 + u[3] * 256 + u[4]
         IN  IF c > 1114111 \/ (c >= 55296 /\ c <= 57343) THEN -1 ELSE c

\* deserialize_char that leaves the 4 bytes of an invalid char unread
deserialize_char_rewound(de) ==
    LET r == get_u32(de)
    IN  IF r.st # "ok" THEN r
        ELSE IF char_from_u32(r.v) = -1 THEN Err(de, <<"InvalidCharEncoding", r.v>>)
        ELSE Ok(r.de, char_from_u32(r.v))

deserialize_char(de) ==
    LET r == get_u32(de)
    IN  IF r.st # "ok" THEN r
        ELSE IF char_from_u32(r.v) = -1 THEN Err(r.de, <<"InvalidCharEncoding", r.v>>)
        ELSE Ok(r.de, char_from_u32(r.v))

\* a UTF-8 continuation byte at position i of b
Utf8Cont(b, i) == i <= Len(b) /\ b[i] >= 128 /\ b[i] <= 191

\* String::from_utf8 accepts b from position i on
RECURSIVE Utf8Valid(_, _)
Utf8Valid(b, i) ==
    IF i > Len(b) THEN TRUE
    ELSE LET c == b[i]
         IN  IF c < 128 THEN Utf8Valid(b, i + 1)
             ELSE IF c >= 194 /\ c <= 223 THEN Utf8Cont(b, i + 1) /\ Utf8Valid(b, i + 2)
             ELSE IF c >= 224 /\ c <= 239 THEN
                    /\ Utf8Cont(b, i + 1) /\ Utf8Cont(b, i + 2)
                    /\ (c = 224 => b[i + 1] >= 160)
                    /\ (c = 237 => b[i + 1] <= 159)
                    /\ Utf8Valid(b, i + 3)
             ELSE IF c >= 240 /\ c <= 244 THEN
                    /\ Utf8Cont(b, i + 1) /\ Utf8Cont(b, i + 2) /\ Utf8Cont(b, i + 3)
                    /\ (c = 240 => b[i + 1] >= 144)
                    /\ (c = 244 => b[i + 1] <= 143)
                    /\ Utf8Valid(b, i + 4)
             ELSE FALSE

deserialize_string(de) ==
    LET r == read_bytes(de)
    IN  IF r.st # "ok" THEN r
        ELSE IF Utf8Valid(r.v, 1) THEN r ELSE Err(r.de, <<"Utf8">>)

deserialize_bytes(de) == read_bytes(de)

deserialize_byte_buf(de) == read_bytes(de)

(***************************************************************************)
(* de.rs: impl de::Deserializer, the composites.  Deserialize(de, T) is    *)
(* `T::deserialize(&mut deserializer)`: the call serde's Deserialize       *)
(* implementation of T makes, and what its visitor builds from the answer. *)
(***************************************************************************)

RECURSIVE Deserialize(_, _)

deserialize_option(de, T) ==
    LET r == get_u8(de)
    IN  IF r.st # "ok" THEN r
        ELSE IF r.v = 0 THEN Ok(r.de, <<>>)
        ELSE IF r.v = 1 THEN
            LET e == Deserialize(r.de, T)
            IN  IF e.st # "ok" THEN e ELSE Ok(e.de, <<e.v>>)
        ELSE Err(r.de, <<"InvalidTagEncoding", r.v>>)

deserialize_unit(de) == Ok(de, <<>>)

deserialize_map(de) == Err(de, <<"NotSupported", "map">>)

deserialize_unit_struct(de) == deserialize_unit(de)

deserialize_newtype_struct(de, T) == Deserialize(de, T)

\* deserialize_seq: the visitor of a Vec<T> calls next_element_seed until it
\* answers None; elems is what it has collected
RECURSIVE deserialize_seq_next(_, _, _)
deserialize_seq_next(de, T, elems) ==
    LET r == get_u8(de)
    IN  IF r.st # "ok" THEN r
        ELSE IF r.v = 1 THEN
            LET e == Deserialize(r.de, T)
            IN  IF e.st # "ok" THEN e
                ELSE deserialize_seq_next(e.de, T, Append(elems, e.v))
        ELSE IF r.v = 0 THEN Ok(r.de, elems)
        ELSE Err(r.de, <<"InvalidSeqEncoding", r.v>>)

deserialize_seq(de, T) == deserialize_seq_next(de, T, <<>>)

\* deserialize_tuple: the visitor of an n-tuple calls next_element_seed once
\* per field; len counts the fields left, elems is what it has collected
RECURSIVE deserialize_tuple_next(_, _, _, _)
deserialize_tuple_next(de, Ts, len, elems) ==
    IF len > 0 THEN
        LET e == Deserialize(de, Ts[Len(Ts) - len + 1])
        IN  IF e.st # "ok" THEN e
            ELSE deserialize_tuple_next(e.de, Ts, len - 1, Append(elems, e.v))
    ELSE Ok(de, elems)

deserialize_tuple(de, Ts, len) == deserialize_tuple_next(de, Ts, len, <<>>)

deserialize_tuple_struct(de, Ts, len) == deserialize_tuple(de, Ts, len)

deserialize_struct(de, Ts) == deserialize_tuple(de, Ts, Len(Ts))

\* impl VariantAccess
unit_variant(de) == Ok(de, <<>>)

newtype_variant_seed(de, T) == Deserialize(de, T)

tuple_variant(de, Ts, len) == deserialize_tuple(de, Ts, len)

\* struct_variant that reads one field too few
struct_variant_short(de, Ts) == deserialize_tuple(de, Ts, Len(Ts) - 1)

struct_variant(de, Ts) == deserialize_tuple(de, Ts, Len(Ts))

\* deserialize_enum: variant_seed reads the index byte; the derived visitor
\* refuses an index that names no variant of the enum, and reads the payload
\* of the variant through VariantAccess
deserialize_enum(de, Vs) ==
    LET r == get_u8(de)
    IN  IF r.st # "ok" THEN r
        ELSE IF r.v >= Len(Vs) THEN Err(r.de, <<"Message", r.v>>)
        ELSE LET V == Vs[r.v + 1]
                 p == CASE V[1] = "unit" -> unit_variant(r.de)
                        [] V[1] = "newtype" -> newtype_variant_seed(r.de, V[2])
                        [] V[1] = "tuple" -> tuple_variant(r.de, V[2], Len(V[2]))
                        [] V[1] = "struct" -> struct_variant(r.de, V[2])
             IN  IF p.st # "ok" THEN p ELSE Ok(p.de, <<r.v, p.v>>)

Deserialize(de, T) ==
    CASE T[1] = "bool" -> deserialize_bool(de)
      [] T[1] = "u8" -> deserialize_u8(de)
      [] T[1] = "u16" -> deserialize_u16(de)
      [] T[1] = "u32" -> deserialize_u32(de)
      [] T[1] = "u64" -> deserialize_u64(de)
      [] T[1] = "u128" -> deserialize_u128(de)
      [] T[1] = "i8" -> deserialize_i8(de)
      [] T[1] = "i16" -> deserialize_i16(de)
      [] T[1] = "i32" -> deserialize_i32(de)
      [] T[1] = "i64" -> deserialize_i64(de)
      [] T[1] = "i128" -> deserialize_i128(de)
      [] T[1] = "char" -> deserialize_char(de)
      [] T[1] = "str" -> deserialize_string(de)
      [] T[1] = "bytes" -> deserialize_byte_buf(de)
      [] T[1] = "opt" -> deserialize_option(de, T[2])
      [] T[1] = "unit" -> deserialize_unit(de)
      [] T[1] = "unit_struct" -> deserialize_unit_struct(de)
      [] T[1] = "newtype_struct" -> deserialize_newtype_struct(de, T[2])
      [] T[1] = "seq" -> deserialize_seq(de, T[2])
      [] T[1] = "tuple" -> deserialize_tuple(de, T[2], Len(T[2]))
      [] T[1] = "tuple_struct" -> deserialize_tuple_struct(de, T[2], Len(T[2]))
      [] T[1] = "struct" -> deserialize_struct(de, T[2])
      [] T[1] = "enum" -> deserialize_enum(de, T[2])
      [] T[1] = "f32" -> deserialize_f32(de)
      [] T[1] = "f64" -> deserialize_f64(de)
      \* the Deserialize of a map type asks for deserialize_map
      [] T[1] = "map" -> deserialize_map(de)

\* from_slice that does not look at what is left of the input
from_slice_lenient(bytes, T) == Deserialize(Deserializer_new(bytes), T)

\* from_slice::<T>(bytes)
from_slice(bytes, T) ==
    LET t == Deserialize(Deserializer_new(bytes), T)
    IN  IF t.st # "ok" THEN t
        ELSE IF MaybeFlip_is_empty(t.de) THEN t
        ELSE Err(t.de, <<"TrailingCharacters">>)

(***************************************************************************)
(* de.rs, decimal.rs: Deserializer::deserialize_decimal.                   *)
(***************************************************************************)

\* `b as i8`
AsI8(b) == IF b >= 128 THEN b - 256 ELSE b

\* m + 1 on a decimal numeral
RECURSIVE DecInc(_)
DecInc(m) ==
    IF m = <<>> THEN <<1>>
    ELSE IF m[Len(m)] < 9 THEN [m EXCEPT ![Len(m)] = @ + 1]
    ELSE Append(DecInc(SubSeq(m, 1, Len(m) - 1)), 0)

\* a decimal numeral without its leading zeros
RECURSIVE DecNorm(_)
DecNorm(m) == IF m # <<>> /\ Head(m) = 0 THEN DecNorm(Tail(m)) ELSE m

\* `mantissa * 100 + x` for x = b / 2, at most 127
MulAdd100(m, x) ==
    DecNorm((IF x >= 100 THEN DecInc(m) ELSE m) \o <<(x % 100) \div 10, x % 10>>)

\* the order of two decimal numerals
DecCmp(a, b) ==
    IF Len(a) < Len(b) THEN -1 ELSE IF Len(a) > Len(b) THEN 1 ELSE LexCmp(a, b)

\* 2^96 - 1, the largest mantissa of a rust_decimal::Decimal
MAX_MANTISSA ==
    <<7, 9, 2, 2, 8, 1, 6, 2, 5, 1, 4, 2, 6, 4, 3, 3, 7, 5, 9, 3, 5, 4, 3, 9, 5, 0, 3, 3, 5>>

\* the largest scale of the Decimals of the model: 28 is the largest that
\* rust_decimal::Decimal holds
MAX_SCALE == 28

\* rust_decimal::Decimal::from_i128_with_scale(+-m, scale).into(): it panics
\* when the mantissa or the scale is out of range
from_i128_with_scale(de, neg, m, scale) ==
    IF scale > MAX_SCALE \/ DecCmp(m, MAX_MANTISSA) = 1 THEN Panic(de)
    ELSE Ok(de, <<"Normalized", neg /\ m # <<>>, m, scale>>)

\* "Remove unnecessary zeros" left out: the mantissa keeps the padding digit
decimal_unpad_none(m, scale) == <<m, scale>>

\* `else if mantissa % 10 == 0 { mantissa /= 10; scale -= 1; }` for scale > 0
decimal_unpad(m, scale) ==
    IF m = <<>> \/ m[Len(m)] = 0
    THEN <<IF m = <<>> THEN m ELSE SubSeq(m, 1, Len(m) - 1), scale - 1>>
    ELSE <<m, scale>>

\* "get scale": <<mantissa, scale>> from the digits read and the exponent
decimal_scale(mantissa, mlen, exponent) ==
    LET scale == (mlen - exponent) * 2
    IN  IF scale <= 0
        THEN <<IF mantissa = <<>> THEN mantissa ELSE mantissa \o Rep(0, 0 - scale), 0>>
        ELSE decimal_unpad(mantissa, scale)

\* "decode mantissa": the loop, then the scale (an i8: its overflow is a
\* panic, with overflow checks on), the sign and the result
RECURSIVE decimal_mantissa(_, _, _, _, _)
decimal_mantissa(de, neg, exponent, mantissa, mlen) ==
    LET r == get_u8(de)
    IN  IF r.st # "ok" THEN r
        ELSE LET b  == IF neg THEN NotByte(r.v) ELSE r.v
                 m1 == MulAdd100(mantissa, b \div 2)
             IN  IF b % 2 # 0 THEN decimal_mantissa(r.de, neg, exponent, m1, mlen + 1)
                 ELSE IF (mlen + 1 - exponent) * 2 \notin -128..127 THEN Panic(r.de)
                 ELSE LET ms == decimal_scale(m1, mlen + 1, exponent)
                      IN  from_i128_with_scale(r.de, neg, ms[1], ms[2])

\* the exponent of a flag that is followed by an exponent byte b; negating
\* i8::MIN overflows (a panic, with overflow checks on)
decimal_exponent(flag, b) ==
    CASE flag = 8 -> AsI8(NotByte(b))
      [] flag = 20 -> 0 - AsI8(b)
      [] flag = 22 -> AsI8(b) + 1
      [] flag = 34 -> AsI8(b)

deserialize_decimal(de) ==
    LET f == get_u8(de)
    IN  IF f.st # "ok" THEN f
        ELSE LET flag == f.v
                 neg  == flag \in 7..20
             IN  CASE flag = 6 -> Ok(f.de, <<"NaN">>)
                   [] flag = 7 -> Ok(f.de, <<"NegInf">>)
                   [] flag = 21 -> Ok(f.de, <<"Normalized", FALSE, <<>>, 0>>)
                   [] flag = 35 -> Ok(f.de, <<"Inf">>)
                   [] flag \in 9..19 -> decimal_mantissa(f.de, neg, 19 - flag, <<>>, 0)
                   [] flag \in 23..33 -> decimal_mantissa(f.de, neg, flag - 23, <<>>, 0)
                   [] flag \in {8, 20, 22, 34} ->
                        LET e == get_u8(f.de)
                        IN  IF e.st # "ok" THEN e
                            ELSE LET exponent == decimal_exponent(flag, e.v)
                                 IN  IF exponent \notin -128..127 THEN Panic(e.de)
                                     ELSE decimal_mantissa(e.de, neg, exponent, <<>>, 0)
                   [] OTHER -> Err(f.de, <<"InvalidDecimalEncoding", flag>>)

\* Decimal::from_slice that does not look at what is left of the input
Decimal_from_slice_lenient(bytes) == deserialize_decimal(Deserializer_new(bytes))

\* Decimal::from_slice
Decimal_from_slice(bytes) ==
    LET t == deserialize_decimal(Deserializer_new(bytes))
    IN  IF t.st # "ok" THEN t
        ELSE IF ~Deserializer_has_remaining(t.de) THEN t
        ELSE Err(t.de, <<"TrailingCharacters">>)

(***************************************************************************)
(* The order of values (Rust's Ord) and of byte vectors.                   *)
(***************************************************************************)

Reverse(c) == 0 - c

IntTypes == {<<"u8">>, <<"u16">>, <<"u32">>, <<"u64">>, <<"u128">>,
             <<"i8">>, <<"i16">>, <<"i32">>, <<"i64">>, <<"i128">>}

BytesTypes == {<<"str">>, <<"bytes">>}

Signed(T) == T[1] \in {"i8", "i16", "i32", "i64", "i128"}

\* the width of an integer type, in bytes
Width(T) ==
    CASE T[1] \in {"u8", "i8"} -> 1
      [] T[1] \in {"u16", "i16"} -> 2
      [] T[1] \in {"u32", "i32"} -> 4
      [] T[1] \in {"u64", "i64"} -> 8
      [] T[1] \in {"u128", "i128"} -> 16

\* the derived or built-in Ord of two values x, y of type T
RECURSIVE CmpVal(_, _, _)
RECURSIVE CmpFields(_, _, _, _)
CmpFields(Ts, x, y, i) ==
    IF i > Len(Ts) THEN 0
    ELSE LET c == CmpVal(Ts[i], x[i], y[i])
         IN  IF c # 0 THEN c ELSE CmpFields(Ts, x, y, i + 1)

RECURSIVE CmpElements(_, _, _, _)
CmpElements(T, x, y, i) ==
    IF i > Len(x) THEN (IF i > Len(y) THEN 0 ELSE -1)
    ELSE IF i > Len(y) THEN 1
    ELSE LET c == CmpVal(T, x[i], y[i])
         IN  IF c # 0 THEN c ELSE CmpElements(T, x, y, i + 1)

CmpVal(T, x, y) ==
    CASE T \in IntTypes -> LexCmp(x, y)
      [] T \in BytesTypes -> LexCmp(x, y)
      [] T[1] = "bool" -> IF x = y THEN 0 ELSE IF y THEN -1 ELSE 1
      [] T[1] = "char" -> IF x = y THEN 0 ELSE IF x < y THEN -1 ELSE 1
      [] T[1] \in {"unit", "unit_struct"} -> 0
      [] T[1] = "newtype_struct" -> CmpVal(T[2], x, y)
      [] T[1] = "opt" ->
            IF x = <<>> THEN (IF y = <<>> THEN 0 ELSE -1)
            ELSE IF y = <<>> THEN 1 ELSE CmpVal(T[2], x[1], y[1])
      [] T[1] = "seq" -> CmpElements(T[2], x, y, 1)
      [] T[1] \in {"tuple", "tuple_struct", "struct"} -> CmpFields(T[2], x, y, 1)
      [] T[1] = "enum" ->
            IF x[1] < y[1] THEN -1
            ELSE IF x[1] > y[1] THEN 1
            ELSE LET V == T[2][x[1] + 1]
                 IN  CASE V[1] = "unit" -> 0
                       [] V[1] = "newtype" -> CmpVal(V[2], x[2], y[2])
                       [] OTHER -> CmpFields(V[2], x[2], y[2], 1)

\* -1, 0, 1: the sign of a float that is not NaN (0 for +0.0 and -0.0)
FloatSign(v) == IF is_zero(v) THEN 0 ELSE IF is_sign_positive(v) THEN 1 ELSE -1

\* partial_cmp of two floats that are not NaN: by sign, then by magnitude,
\* which IEEE-754 orders as it orders the bit patterns
CmpFloat(x, y) ==
    IF FloatSign(x) # FloatSign(y) THEN (IF FloatSign(x) < FloatSign(y) THEN -1 ELSE 1)
    ELSE IF FloatSign(x) = 1 THEN LexCmp(FloatAbs(x), FloatAbs(y))
    ELSE IF FloatSign(x) = -1 THEN Reverse(LexCmp(FloatAbs(x), FloatAbs(y)))
    ELSE 0

\* -1, 0, 1: the sign of a rust_decimal::Decimal
NormalizedSign(d) == IF d[3] = <<>> THEN 0 ELSE IF d[2] THEN -1 ELSE 1

\* the order of the magnitudes m1 / 10^s1 and m2 / 10^s2: the mantissas are
\* brought to one scale and compared
CmpMagnitude(x, y) ==
    LET s == IF x[4] > y[4] THEN x[4] ELSE y[4]
    IN  DecCmp(x[3] \o Rep(0, s - x[4]), y[3] \o Rep(0, s - y[4]))

\* Ord of rust_decimal::Decimal: the numeric order
CmpNormalized(x, y) ==
    IF NormalizedSign(x) # NormalizedSign(y)
    THEN (IF NormalizedSign(x) < NormalizedSign(y) THEN -1 ELSE 1)
    ELSE IF NormalizedSign(x) = 1 THEN CmpMagnitude(x, y)
    ELSE IF NormalizedSign(x) = -1 THEN Reverse(CmpMagnitude(x, y))
    ELSE 0

\* the place of a variant in the declaration of enum Decimal
Decimal_discriminant(d) ==
    CASE d[1] = "NegInf" -> 0
      [] d[1] = "Normalized" -> 1
      [] d[1] = "Inf" -> 2
      [] d[1] = "NaN" -> 3

\* derive(Ord) of enum Decimal: by variant, two Normalized by their values
Decimal_cmp(x, y) ==
    IF Decimal_discriminant(x) < Decimal_discriminant(y) THEN -1
    ELSE IF Decimal_discriminant(x) > Decimal_discriminant(y) THEN 1
    ELSE IF x[1] = "Normalized" THEN CmpNormalized(x, y)
    ELSE 0

(***************************************************************************)
(* The inputs: the types and the values the operations are applied to.     *)
(***************************************************************************)

\* the longest str / byte string
MaxLen == 17

\* the longest sequence
MaxSeqLen == 2

\* the most values one Serializer is given
MaxFields == 2

\* leading digits: the ends of the range, and both sides of zero and of the
\* sign bit
Lead(T) == IF Signed(T) THEN {-128, -1, 0, 1, 127} ELSE {0, 1, 128, 255}

LowDigits(n) == IF n = 0 THEN {<<>>} ELSE {Rep(0, n), Rep(255, n), Rep(0, n - 1) \o <<1>>}

IntVals(T) == {<<l>> \o t : l \in Lead(T), t \in LowDigits(Width(T) - 1)}

\* -1, 0, 1 (signed) or 0, 1, the maximum (unsigned)
FewInts(T) ==
    LET n == Width(T) - 1
    IN  IF Signed(T) THEN {<<-1>> \o Rep(255, n), <<0>> \o Rep(0, n), AsSigned(Rep(0, n) \o <<1>>)}
        ELSE {Rep(0, n + 1), Rep(0, n) \o <<1>>, Rep(255, n + 1)}

\* code points: the ends of the two ranges of scalar values, and 'G'
CharVals == {0, 71, 55295, 57344, 1114111}

\* byte strings 00..00, 00..00 01 and 00..00 FF of every length
BytesVals ==
    {b \in {Rep(0, n) \o t : n \in 0..MaxLen, t \in {<<>>, <<1>>, <<255>>}} : Len(b) <= MaxLen}

\* texts "aa..a" and "aa..a" followed by U+00E9, of every length
StrVals ==
    {b \in {Rep(97, n) \o t : n \in 0..MaxLen, t \in {<<>>, <<195, 169>>}} : Len(b) <= MaxLen}

FewStrs == {<<>>, <<97>>, Rep(97, 9)}

\* enum TestEnum { Unit, NewType(u8), Tuple(u8, u8), Struct { a: u8, b: u8 } }
TestEnum ==
    <<"enum", << <<"unit">>, <<"newtype", <<"u8">>>>,
                 <<"tuple", << <<"u8">>, <<"u8">> >>>>,
                 <<"struct", << <<"u8">>, <<"u8">> >>>> >> >>

\* the types of the values a Serializer is given
Types ==
    IntTypes \cup BytesTypes \cup
    { <<"bool">>, <<"char">>, <<"unit">>, <<"unit_struct">>,
      <<"newtype_struct", <<"char">>>>,
      <<"opt", <<"u8">>>>,
      <<"opt", <<"opt", <<"bool">>>>>>,
      <<"opt", <<"str">>>>,
      <<"seq", <<"u8">>>>,
      <<"seq", <<"str">>>>,
      <<"seq", <<"seq", <<"bool">>>>>>,
      <<"tuple", << <<"i8">>, <<"u16">> >>>>,
      <<"tuple", << <<"str">>, <<"u8">> >>>>,
      <<"tuple_struct", << <<"u8">>, <<"i32">> >>>>,
      <<"struct", << <<"bool">>, <<"str">>, <<"opt", <<"u8">>>> >>>>,
      TestEnum }

FloatTypes == {<<"f32">>, <<"f64">>}

\* floats: both zeros, the smallest and the largest magnitudes, 1, 1.5,
\* both infinities, and NaNs of either sign, quiet and signalling
FloatVals(T) ==
    LET n == IF T[1] = "f32" THEN 2 ELSE 6
        one == IF T[1] = "f32" THEN <<63, 128>> ELSE <<63, 240>>
        inf == IF T[1] = "f32" THEN <<127, 128>> ELSE <<127, 240>>
        pos == { <<0, 0>> \o Rep(0, n), <<0, 0>> \o Rep(0, n - 1) \o <<1>>,
                 one \o Rep(0, n), [one EXCEPT ![2] = @ + 8] \o Rep(0, n),
                 [inf EXCEPT ![2] = @ - 1] \o Rep(255, n), inf \o Rep(0, n),
                 inf \o Rep(0, n - 1) \o <<1>>, [inf EXCEPT ![2] = @ + 8] \o Rep(0, n),
                 <<127, 255>> \o Rep(255, n) }
    IN  pos \cup {[v EXCEPT ![1] = @ + 128] : v \in pos}

\* a map type: BTreeMap<u8, bool>
MapType == <<"map", <<"u8">>, <<"bool">>>>

\* the variants an enum has beyond the 256 that u8 can index
ExtraVariants == 4

\* an enum of 256 + ExtraVariants variants: unit variants, and at the
\* indices 252..255 and 256..259 one variant of each of the four kinds
ManyVariants ==
    <<"enum", [k \in 1..(256 + ExtraVariants) |->
                  IF k <= 252 THEN <<"unit">>
                  ELSE CASE k % 4 = 1 -> <<"unit">>
                         [] k % 4 = 2 -> <<"newtype", <<"u8">>>>
                         [] k % 4 = 3 -> <<"tuple", << <<"u8">>, <<"u8">> >>>>
                         [] k % 4 = 0 -> <<"struct", << <<"u8">>, <<"u8">> >>>>]>>

\* the variants of an enum that values are made of: all of them, or of a
\* large enum the first and the last eight
SampledVariants(T) ==
    IF Len(T[2]) <= 8 THEN 1..Len(T[2]) ELSE {1} \cup ((Len(T[2]) - 7)..Len(T[2]))

\* the types a Serializer is given beside Types: floats, and the types whose
\* serialization fails
AllTypes == Types \cup FloatTypes \cup {MapType, ManyVariants}

\* the data of type T: every sample at the top, fewer inside a composite
RECURSIVE Vals(_, _)
RECURSIVE FieldVals(_, _)
\* the data of the fields Ts[1..n]
FieldVals(Ts, n) ==
    IF n = 0 THEN {<<>>}
    ELSE {ds \o <<d>> : ds \in FieldVals(Ts, n - 1), d \in Vals(Ts[n], FALSE)}

Vals(T, top) ==
    CASE T \in IntTypes -> IF top THEN IntVals(T) ELSE FewInts(T)
      [] T[1] = "bool" -> BOOLEAN
      [] T[1] = "char" -> CharVals
      [] T[1] = "str" -> IF top THEN StrVals ELSE FewStrs
      [] T[1] = "bytes" -> BytesVals
      [] T[1] \in {"unit", "unit_struct"} -> {<<>>}
      [] T[1] = "newtype_struct" -> Vals(T[2], top)
      [] T[1] = "opt" -> {<<>>} \cup {<<d>> : d \in Vals(T[2], FALSE)}
      [] T[1] = "seq" ->
            UNION {FieldVals([i \in 1..n |-> T[2]], n) : n \in 0..(IF top THEN MaxSeqLen ELSE 1)}
      [] T[1] \in {"tuple", "tuple_struct", "struct"} -> FieldVals(T[2], Len(T[2]))
      [] T[1] = "enum" ->
            UNION {LET V == T[2][k]
                   IN  CASE V[1] = "unit" -> {<<k - 1, <<>>>>}
                         [] V[1] = "newtype" -> {<<k - 1, d>> : d \in Vals(V[2], FALSE)}
                         [] OTHER -> {<<k - 1, ds>> : ds \in FieldVals(V[2], Len(V[2]))}
                   : k \in SampledVariants(T)}
      [] T \in FloatTypes -> FloatVals(T)
      [] T[1] = "map" -> {<<>>, << <<<<1>>, TRUE>> >>}

\* the types and values of the fields of a key of several fields
KeyTypes == {<<"i32">>, <<"str">>}

KeyVals(T) == IF T \in IntTypes THEN FewInts(T) ELSE {<<>>, <<97>>, <<97, 98>>}

\* the values of every type, computed once
Universe == [T \in AllTypes |-> Vals(T, TRUE)]

\* enum Decimal as a type of the log
DecimalType == <<"Decimal">>

\* mantissas of 1 to 29 digits, 2^96 - 1 the largest
DecimalMantissas ==
    { <<1>>, <<5>>, <<1, 0>>, <<1, 2>>, <<1, 0, 0>>, <<1, 2, 3>>, <<9, 9, 0, 1>>,
      <<1, 2, 3, 4, 5, 6, 7, 8, 9, 0, 1, 2, 3, 4, 5, 6, 7, 8, 9, 0, 1, 2, 3, 4>>,
      MAX_MANTISSA }

DecimalScales == {0, 1, 2, 3, MAX_SCALE}

\* NaN, both infinities, zeros of either sign and of two scales, and the
\* values +-m / 10^scale
DecimalVals ==
    { <<"NaN">>, <<"NegInf">>, <<"Inf">> } \cup
    { <<"Normalized", neg, <<>>, scale>> : neg \in BOOLEAN, scale \in {0, 2} } \cup
    { <<"Normalized", neg, m, scale>> :
        neg \in BOOLEAN, m \in DecimalMantissas, scale \in DecimalScales }

(***************************************************************************)
(* The state: two Serializers, each with the record of the values it was   *)
(* given, and the Deserializer with the result of its last operation.      *)
(***************************************************************************)

VARIABLES
    ser,    \* ser[i]: the i-th Serializer
    log,    \* log[i]: the values ser[i] has serialized, each with the flip bit in force
    de,     \* the Deserializer
    res     \* the operation the Deserializer ran last, and what it returned

vars == <<ser, log, de, res>>

Inst == {1, 2}

Init ==
    /\ ser = [i \in Inst |-> Serializer_new]
    /\ log = [i \in Inst |-> <<>>]
    /\ de = Deserializer_new(<<>>)
    /\ res = [op |-> "none"]

\* ser[i] was given exactly one value
Single(i) == Len(log[i]) = 1

\* The Serializers share no state.  The second is there to have its output
\* compared with the first's, so its k-th value is of the type of the first's
\* k-th value; a key of several fields is made of KeyTypes values, and from
\* its second field on the two keys are written with the same flip bits.
IsKeyField(e) == e.T \in KeyTypes /\ e.d \in KeyVals(e.T)

\* ser[i] may be given one more value
MayContinue(i) ==
    LET k == Len(log[i]) + 1
    IN  /\ k <= MaxFields
        /\ ~Failed(ser[i])
        /\ \A j \in 1..(k - 1) : IsKeyField(log[i][j])
        /\ i = 2 => Len(log[1]) >= k

\* and that value may be of type T
TypeAllowed(i, T) ==
    LET k == Len(log[i]) + 1
    IN  /\ MayContinue(i)
        /\ k > 1 => T \in KeyTypes
        /\ i = 2 => /\ log[1][k].T = T
                    /\ k > 1 => ser[2].flip = log[1][k].flip

ValuesAllowed(i, T) == IF Len(log[i]) = 0 THEN Universe[T] ELSE KeyVals(T)

\* value.serialize(&mut ser[i])
SerializeValue(i) ==
    /\ res.op = "none"
    /\ \E T \in AllTypes :
        /\ TypeAllowed(i, T)
        /\ \E d \in ValuesAllowed(i, T) :
            /\ ser' = [ser EXCEPT ![i] = Serialize(@, T, d)]
            /\ log' = [log EXCEPT ![i] = Append(@, [T |-> T, d |-> d, flip |-> ser[i].flip])]
    /\ UNCHANGED <<de, res>>

\* ser[i].serialize_decimal(d)
SerializeDecimal(i) ==
    /\ res.op = "none"
    /\ TypeAllowed(i, DecimalType)
    /\ \E d \in DecimalVals :
        /\ ser' = [ser EXCEPT ![i] = serialize_decimal(@, d)]
        /\ log' = [log EXCEPT ![i] = Append(@, [T |-> DecimalType, d |-> d, flip |-> ser[i].flip])]
    /\ UNCHANGED <<de, res>>

\* ser[i].set_reverse(reverse), called while ser[i] has a value still to come
SetReverse(i) ==
    /\ res.op = "none"
    /\ MayContinue(i)
    /\ \E reverse \in BOOLEAN :
        ser' = [ser EXCEPT ![i] = Serializer_set_reverse(@, reverse)]
    /\ UNCHANGED <<log, de, res>>

\* from_slice::<T>(&ser[1].into_inner()), T the type of the first value written
FromSlice ==
    /\ res.op = "none"
    /\ log[1] # <<>>
    /\ log[2] = <<>>
    /\ ~Failed(ser[1])
    /\ log[1][1].T # DecimalType
    /\ LET bytes == Serializer_into_inner(ser[1])
           r == from_slice(bytes, log[1][1].T)
       IN  /\ de' = r.de
           /\ res' = [op |-> "from_slice", T |-> log[1][1].T, input |-> bytes,
                      st |-> r.st, v |-> r.v]
    /\ UNCHANGED <<ser, log>>

\* the bytes put in the place of a byte of an encoding
TamperBytes == {0, 1, 2, 9, 10, 255}

\* the types whose encodings are decoded with one byte replaced
TamperTypes ==
    {<<"bool">>, <<"opt", <<"u8">>>>, <<"seq", <<"u8">>>>, <<"bytes">>, <<"str">>}

\* bytes with one more byte after them
Extended(bytes) == {bytes \o <<b>> : b \in {0, 255}}

\* bytes with one byte replaced
Replaced(bytes) ==
    {[bytes EXCEPT ![p] = b] : p \in 1..Len(bytes), b \in TamperBytes} \ {bytes}

\* from_slice::<T>(bytes) for bytes that no to_vec has written: the encoding
\* of the value ser[1] was given, with a byte added or a byte replaced
FromSliceBytes ==
    /\ res.op = "none"
    /\ Single(1)
    /\ log[2] = <<>>
    /\ ~Failed(ser[1])
    /\ ~log[1][1].flip
    /\ log[1][1].T \in Types
    /\ \E bytes \in Extended(ser[1].output) \cup
                     (IF log[1][1].T \in TamperTypes THEN Replaced(ser[1].output) ELSE {}) :
          LET r == from_slice(bytes, log[1][1].T)
          IN  /\ de' = r.de
              /\ res' = [op |-> "from_slice_bytes", T |-> log[1][1].T, input |-> bytes,
                         st |-> r.st, v |-> r.v]
    /\ UNCHANGED <<ser, log>>

\* Decimal::from_slice(bytes), for the encoding of the Decimal ser[1] was
\* given and for that encoding with a byte added
DecimalFromSlice ==
    /\ res.op = "none"
    /\ Single(1)
    /\ log[2] = <<>>
    /\ log[1][1].T = DecimalType
    /\ ~log[1][1].flip
    /\ \E bytes \in {ser[1].output} \cup Extended(ser[1].output) :
          LET r == Decimal_from_slice(bytes)
          IN  /\ de' = r.de
              /\ res' = [op |-> "Decimal::from_slice", T |-> DecimalType, input |-> bytes,
                         st |-> r.st, v |-> r.v]
    /\ UNCHANGED <<ser, log>>

\* ser[1] has written its values and nothing else was done since: its flip
\* bit is the one of its last value, and ser[2] is as constructed
Written ==
    /\ log[1] # <<>>
    /\ ser[1].flip = log[1][Len(log[1])].flip
    /\ ser[2] = Serializer_new
    /\ log[2] = <<>>

\* The operations run on one Deserializer are recorded in res with
\*   input: the bytes the Deserializer was constructed on,
\*   before: the Deserializer before the operation,
\*   k: the number of values of log[1] decoded so far,
\*   n: the number of operations that read the input so far,
\*   hist: these operations in order, each with the flip bit it ran with, the
\*         cursor before and after it, and what it returned.
Ran(op, d, r) ==
    [op |-> op, flip |-> d.flip, from |-> Deserializer_position(d),
     to |-> Deserializer_position(r.de), st |-> r.st, v |-> r.v]

\* Deserializer::new(&ser[1].into_inner()[..])
DeserializerNew ==
    /\ res.op = "none"
    /\ Written
    /\ de' = Deserializer_new(Serializer_into_inner(ser[1]))
    /\ res' = [op |-> "new", input |-> Serializer_into_inner(ser[1]), st |-> "ok",
               k |-> 0, n |-> 0, hist |-> <<>>]
    /\ UNCHANGED <<ser, log>>

\* the types whose encodings are read with one byte replaced, by a
\* Deserializer with either flip bit
MalformedTypes ==
    {<<"bool">>, <<"char">>, <<"opt", <<"u8">>>>, <<"seq", <<"u8">>>>, <<"bytes">>}

\* a byte that is no tag and no trailer, a byte that is no prefix, the empty
\* prefix, and their complements
MalformedBytes == {0, 2, 10, NotByte(0), NotByte(2), NotByte(10)}

\* bytes with one byte replaced: the first one, the last one of a group of 9
\* that follows it, or any byte of a short encoding
Malformed(bytes) ==
    {[bytes EXCEPT ![p] = b] :
        p \in {q \in 1..Len(bytes) : q % BYTES_CHUNK_UNIT_SIZE = 1 \/ Len(bytes) <= 5},
        b \in MalformedBytes} \ {bytes}

\* Deserializer::new(bytes) for bytes that no Serializer has written: the
\* encoding of the value ser[1] was given, with a byte replaced
DeserializerNewBytes ==
    /\ res.op = "none"
    /\ Written
    /\ Single(1)
    /\ log[1][1].T \in MalformedTypes
    /\ \E bytes \in Malformed(ser[1].output) :
          /\ de' = Deserializer_new(bytes)
          /\ res' = [op |-> "new", input |-> bytes, st |-> "ok", k |-> 0, n |-> 0,
                     hist |-> <<>>]
    /\ UNCHANGED <<ser, log>>

\* the operations that read the input, run on one Deserializer
MaxOps == MaxFields

\* no operation has read the input of the Deserializer yet
Started == res.op \in {"new", "set_reverse"} /\ res.n = 0

\* the Deserializer is there for its next operation
Live ==
    /\ res.op \in {"new", "set_reverse", "deserialize_value", "skip_bytes", "advance"}
    /\ res.st # "panic"

\* de.set_reverse(reverse)
DeserializerSetReverse ==
    /\ Live
    /\ res.op # "set_reverse"
    /\ \E reverse \in BOOLEAN : de' = Deserializer_set_reverse(de, reverse)
    /\ res' = [op |-> "set_reverse", input |-> res.input, before |-> de, st |-> "ok",
               k |-> res.k, n |-> res.n, hist |-> res.hist]
    /\ UNCHANGED <<ser, log>>

\* T::deserialize(&mut de), T the type of the next value of log[1]
DeserializeValue ==
    /\ Live
    /\ res.n < MaxOps
    /\ res.k < Len(log[1])
    /\ log[1][res.k + 1].T # DecimalType
    /\ LET T == log[1][res.k + 1].T
           r == Deserialize(de, T)
       IN  /\ de' = r.de
           /\ res' = [op |-> "deserialize_value", T |-> T, input |-> res.input,
                      before |-> de, st |-> r.st, v |-> r.v,
                      k |-> IF r.st = "ok" THEN res.k + 1 ELSE res.k, n |-> res.n + 1,
                      hist |-> Append(res.hist, Ran("deserialize_value", de, r))]
    /\ UNCHANGED <<ser, log>>

\* the types of the value of an input that skip_bytes and advance are run on
SkippedTypes == KeyTypes \cup MalformedTypes

\* skip_bytes and advance are run on an input of one value, as the first or
\* the second operation that reads it, and as the first when a byte of the
\* input was replaced
Skipping ==
    /\ Single(1)
    /\ log[1][1].T \in SkippedTypes
    /\ res.n <= (IF res.input = ser[1].output THEN 1 ELSE 0)

\* de.skip_bytes()
DeserializerSkipBytes ==
    /\ Live
    /\ Skipping
    /\ LET r == skip_bytes(de)
       IN  /\ de' = r.de
           /\ res' = [op |-> "skip_bytes", input |-> res.input, before |-> de,
                      st |-> r.st, v |-> r.v, k |-> res.k, n |-> res.n + 1,
                      hist |-> Append(res.hist, Ran("skip_bytes", de, r))]
    /\ UNCHANGED <<ser, log>>

\* the counts advance is called with
AdvanceCounts == {0, 1, BYTES_CHUNK_UNIT_SIZE}

\* de.advance(cnt)
DeserializerAdvance ==
    /\ Live
    /\ Skipping
    /\ \E cnt \in AdvanceCounts :
          LET r == Deserializer_advance(de, cnt)
          IN  /\ de' = r.de
              /\ res' = [op |-> "advance", cnt |-> cnt, input |-> res.input,
                         before |-> de, st |-> r.st, v |-> r.v, k |-> res.k,
                         n |-> res.n + 1,
                         hist |-> Append(res.hist, Ran("advance", de, r))]
    /\ UNCHANGED <<ser, log>>

\* de.deserialize_decimal()
DeserializeDecimal ==
    /\ Started
    /\ log[1][1].T = DecimalType
    /\ LET r == deserialize_decimal(de)
       IN  /\ de' = r.de
           /\ res' = [op |-> "deserialize_decimal", T |-> DecimalType, input |-> de.input,
                      flip |-> de.flip, st |-> r.st, v |-> r.v]
    /\ UNCHANGED <<ser, log>>

\* T::deserialize(&mut de) for a map type T, whatever the input holds
DeserializeMap ==
    /\ Started
    /\ LET r == Deserialize(de, MapType)
       IN  /\ de' = r.de
           /\ res' = [op |-> "deserialize", T |-> MapType, input |-> de.input,
                      flip |-> de.flip, st |-> r.st, v |-> r.v]
    /\ UNCHANGED <<ser, log>>

Next ==
    \/ \E i \in Inst : SerializeValue(i)
    \/ \E i \in Inst : SerializeDecimal(i)
    \/ \E i \in Inst : SetReverse(i)
    \/ FromSlice
    \/ FromSliceBytes
    \/ DecimalFromSlice
    \/ DeserializerNew
    \/ DeserializerNewBytes
    \/ DeserializerSetReverse
    \/ DeserializeValue
    \/ DeserializerSkipBytes
    \/ DeserializerAdvance
    \/ DeserializeDecimal
    \/ DeserializeMap

Spec == Init /\ [][Next]_vars

(***************************************************************************)
(* The claims.                                                             *)
(***************************************************************************)

\* both Serializers were given one value each, of one type, with flip bits f1, f2
Pair(f1, f2) ==
    /\ Single(1) /\ Single(2)
    /\ log[1][1].T = log[2][1].T
    /\ log[1][1].flip = f1 /\ log[2][1].flip = f2

\* the order of the two outputs, and of the two values written
OutputOrder == LexCmp(ser[1].output, ser[2].output)

ValueOrder == CmpVal(log[1][1].T, log[1][1].d, log[2][1].d)

\* C1: for two integers x, y of one type (unsigned or signed, 8 to 128 bits)
\* the byte order of to_vec(x) and to_vec(y) is the numeric order of x and y,
\* and a signed integer is written as its big-endian bit pattern with the
\* most significant bit toggled.
C1_IntegerOrder ==
    (Pair(FALSE, FALSE) /\ log[1][1].T \in IntTypes) =>
        /\ OutputOrder = ValueOrder
        /\ Signed(log[1][1].T) => ser[1].output = XorMsb(AsUnsigned(log[1][1].d))

\* a negative and a positive i128 have been written
C1_Witness ==
    /\ Pair(FALSE, FALSE)
    /\ log[1][1].T = <<"i128">>
    /\ log[1][1].d[1] < 0
    /\ log[2][1].d[1] > 0

\* C2: for two byte strings or texts a, b written with flip off, the byte
\* order of the encodings is the lexicographic order of a and b (so a proper
\* prefix, the empty one and one of 8 bytes included, encodes smaller).
C2_BytesOrder ==
    (Pair(FALSE, FALSE) /\ log[1][1].T \in BytesTypes) => OutputOrder = ValueOrder

\* an 8-byte string and a 9-byte string it is a prefix of have been written
C2_Witness ==
    /\ Pair(FALSE, FALSE)
    /\ log[1][1].T = <<"bytes">>
    /\ log[1][1].d = Rep(0, 8)
    /\ log[2][1].d = Rep(0, 8) \o <<1>>
    /\ OutputOrder = -1

\* C3: with set_reverse(true) in force for the whole value, the byte order of
\* the encodings of two integers or two byte strings/texts is the reverse of
\* the order of the values, and equal values encode identically.
C3_DescendingOrder ==
    (Pair(TRUE, TRUE) /\ log[1][1].T \in IntTypes \cup BytesTypes) =>
        /\ OutputOrder = Reverse(ValueOrder)
        /\ log[1][1].d = log[2][1].d => ser[1].output = ser[2].output

\* a text and a longer text it is a prefix of have been written in reverse
C3_Witness ==
    /\ Pair(TRUE, TRUE)
    /\ log[1][1].T = <<"str">>
    /\ log[1][1].d = Rep(97, 8)
    /\ log[2][1].d = Rep(97, 10)
    /\ OutputOrder = 1

\* both Serializers wrote a key of two fields: the first with flip off, then
\* set_reverse(true), then the second
AscDescKeys ==
    /\ Len(log[1]) = 2 /\ Len(log[2]) = 2
    /\ \A i \in Inst : ~log[i][1].flip /\ log[i][2].flip
    /\ \A k \in 1..2 : log[1][k].T = log[2][k].T

\* the order of the k-th fields of the two keys
FieldOrder(k) == CmpVal(log[1][k].T, log[1][k].d, log[2][k].d)

\* C4: a key (a, b) written as a with flip off, set_reverse(true), b sorts
\* ascending on a and, for equal a, descending on b:
\* key(a1, b1) < key(a2, b2) exactly when a1 < a2, or a1 = a2 and b1 > b2.
C4_AscDescKey ==
    AscDescKeys =>
        ((OutputOrder = -1) <=>
            (FieldOrder(1) = -1 \/ (FieldOrder(1) = 0 /\ FieldOrder(2) = 1)))

\* two keys with the same first field, the first key's second field larger
C4_Witness ==
    /\ AscDescKeys
    /\ log[1][1].T = <<"str">> /\ log[1][2].T = <<"i32">>
    /\ FieldOrder(1) = 0 /\ FieldOrder(2) = 1
    /\ OutputOrder = -1

ScalarTypes == IntTypes \cup BytesTypes \cup {<<"bool">>, <<"char">>}

\* from_slice was applied to to_vec(x) for the one value x given to ser[1]
FromSliceOfToVec ==
    /\ res.op = "from_slice"
    /\ Single(1)
    /\ ~log[1][1].flip

\* from_slice returned Ok(x) and left no byte unread
RoundTrip ==
    /\ res.st = "ok"
    /\ res.v = log[1][1].d
    /\ de.input = <<>>
    /\ Deserializer_position(de) = Len(ser[1].output)

\* C5: from_slice(to_vec(x)) = Ok(x), the whole encoding consumed, for every
\* bool, integer, char and text/byte string x.
C5_ScalarRoundTrip ==
    (FromSliceOfToVec /\ log[1][1].T \in ScalarTypes) => RoundTrip

\* a text of two groups and a three-byte tail has come back
C5_Witness ==
    /\ FromSliceOfToVec
    /\ log[1][1].T = <<"str">>
    /\ Len(log[1][1].d) = 17
    /\ res.st = "ok"

\* C6: from_slice(to_vec(v)) = Ok(v) for every Option, tuple, tuple struct,
\* struct, sequence and enum variant (and unit and newtype wrappers).
C6_CompositeRoundTrip ==
    (FromSliceOfToVec /\ log[1][1].T \in Types \ ScalarTypes) => RoundTrip

\* the struct variant of TestEnum has come back
C6_Witness ==
    /\ FromSliceOfToVec
    /\ log[1][1].T = TestEnum
    /\ log[1][1].d[1] = 3
    /\ res.st = "ok"

\* to_vec(d[i]) ++ ... ++ to_vec(d[n]) for the fields Ts[i..n]
RECURSIVE ConcatToVec(_, _, _)
ConcatToVec(Ts, ds, i) ==
    IF i > Len(Ts) THEN <<>> ELSE to_vec(Ts[i], ds[i]) \o ConcatToVec(Ts, ds, i + 1)

\* C7: the encoding of a tuple, tuple struct or struct is the encodings of
\* its fields, in order, and nothing else; a unit and a unit struct encode
\* to no byte, and a newtype struct as the value it wraps.
C7_Concatenation ==
    (Single(1) /\ ~log[1][1].flip) =>
        LET T == log[1][1].T
            d == log[1][1].d
        IN  /\ T[1] \in {"tuple", "tuple_struct", "struct"} =>
                ser[1].output = ConcatToVec(T[2], d, 1)
            /\ T[1] \in {"unit", "unit_struct"} => ser[1].output = <<>>
            /\ T[1] = "newtype_struct" => ser[1].output = to_vec(T[2], d)

\* the tuple ("aaaaaaaaa", 255) has been written
C7_Witness ==
    /\ Single(1) /\ ~log[1][1].flip
    /\ log[1][1].T = <<"tuple", << <<"str">>, <<"u8">> >>>>
    /\ log[1][1].d = <<Rep(97, 9), <<255>>>>
    /\ Len(ser[1].output) = 20

\* the number of 9-byte groups of a string of L bytes
Groups(L) == (L + 7) \div 8

\* out is the layout of the string v: 00 for the empty string, else 01 and
\* Groups(L) groups of 8 bytes of v, zero-padded, and a trailer: 9 after a
\* group that is not the last, the number of bytes of v in the last group
BytesLayout(v, out) ==
    LET L == Len(v)
    IN  IF L = 0 THEN out = <<0>>
        ELSE /\ Len(out) = 1 + 9 * Groups(L)
             /\ out[1] = 1
             /\ \A g \in 1..Groups(L) :
                    /\ \A j \in 1..8 :
                            out[1 + 9 * (g - 1) + j] =
                                IF 8 * (g - 1) + j <= L THEN v[8 * (g - 1) + j] ELSE 0
                    /\ out[1 + 9 * g] = IF g < Groups(L) THEN 9 ELSE L - 8 * (g - 1)
                    /\ out[1 + 9 * g] \in 1..9

\* C8: the layout of a byte string or text written with flip off.
C8_BytesLayout ==
    (Single(1) /\ ~log[1][1].flip /\ log[1][1].T \in BytesTypes) =>
        BytesLayout(log[1][1].d, ser[1].output)

\* a string of 16 bytes has been written: two full groups, the last trailer 8
C8_Witness ==
    /\ Single(1) /\ ~log[1][1].flip
    /\ log[1][1].T = <<"bytes">>
    /\ Len(log[1][1].d) = 16
    /\ ser[1].output[10] = 9
    /\ ser[1].output[19] = 8

\* C9 (as claimed): the encoding of a str/bytes of L bytes is (L + 7) / 8 x 9
\* bytes long.
C9_DocumentedLength ==
    (Single(1) /\ log[1][1].T \in BytesTypes) =>
        Len(ser[1].output) = ((Len(log[1][1].d) + 7) \div 8) * 9

\* C10: the byte order of the encodings of two sequences of one element
\* type is the lexicographic order of the sequences; a proper prefix encodes
\* smaller.
C10_SequenceOrder ==
    (Pair(FALSE, FALSE) /\ log[1][1].T[1] = "seq") => OutputOrder = ValueOrder

\* a sequence and a longer one it is a prefix of have been written
C10_Witness ==
    /\ Pair(FALSE, FALSE)
    /\ log[1][1].T = <<"seq", <<"u8">>>>
    /\ Len(log[1][1].d) = 1
    /\ Len(log[2][1].d) = 2
    /\ log[2][1].d[1] = log[1][1].d[1]
    /\ OutputOrder = -1

\* C11: the encoding of floats normalises and keeps the order: every NaN
\* (either sign, any payload) is written as one byte pattern, -0.0 and +0.0 as
\* the same bytes, and for two floats x < y, neither NaN, the bytes of x are
\* smaller than those of y; a sign-positive pattern is written with its sign
\* bit set, a negative one complemented.
C11_FloatOrder ==
    (Pair(FALSE, FALSE) /\ log[1][1].T \in FloatTypes) =>
        LET x == log[1][1].d
            y == log[2][1].d
        IN  /\ (is_nan(x) /\ is_nan(y)) => ser[1].output = ser[2].output
            /\ (is_zero(x) /\ is_zero(y)) => ser[1].output = ser[2].output
            /\ (~is_nan(x) /\ ~is_nan(y)) => OutputOrder = CmpFloat(x, y)
            /\ (~is_nan(x) /\ ~is_zero(x)) =>
                    ser[1].output = IF is_sign_positive(x) THEN <<x[1] + 128>> \o Tail(x)
                                    ELSE NotUint(x)

\* -1.0 and the smallest negative f64 have been written, and -1.0 is below
C11_Witness ==
    /\ Pair(FALSE, FALSE)
    /\ log[1][1].T = <<"f64">>
    /\ log[1][1].d = <<191, 240, 0, 0, 0, 0, 0, 0>>
    /\ log[2][1].d = <<128, 0, 0, 0, 0, 0, 0, 1>>
    /\ OutputOrder = -1

\* both Serializers were given one Decimal each, with flip bits f1, f2
DecimalPair(f1, f2) == Pair(f1, f2) /\ log[1][1].T = DecimalType

\* C12 (as claimed): the byte order of serialize_decimal(x) and
\* serialize_decimal(y) is the order of x and y under the Ord of Decimal:
\* NegInf < every Normalized < Inf < NaN.
C12_DecimalOrd ==
    DecimalPair(FALSE, FALSE) => OutputOrder = Decimal_cmp(log[1][1].d, log[2][1].d)

\* C13: the encodings of Decimals increase along NaN, -Inf, the negative
\* values in numeric order, zero, the positive values in numeric order, +Inf:
\* for x < y, neither NaN, the bytes of x are smaller than those of y, and the
\* bytes of NaN are smaller than those of every other Decimal.
C13_DecimalIncreasing ==
    DecimalPair(FALSE, FALSE) =>
        LET x == log[1][1].d
            y == log[2][1].d
        IN  /\ (x[1] # "NaN" /\ y[1] # "NaN" /\ Decimal_cmp(x, y) = -1) => OutputOrder = -1
            /\ (x[1] = "NaN" /\ y[1] # "NaN") => OutputOrder = -1

\* -0.001 and -10^-28, of the exponents -1 and -13, have been written
C13_Witness ==
    /\ DecimalPair(FALSE, FALSE)
    /\ log[1][1].d = <<"Normalized", TRUE, <<1>>, 3>>
    /\ log[2][1].d = <<"Normalized", TRUE, <<1>>, MAX_SCALE>>
    /\ ser[1].output = <<20, 1, 235>>
    /\ ser[2].output = <<20, 13, 253>>

\* Decimal::from_slice was applied to the bytes serialize_decimal wrote for
\* the one Decimal given to ser[1]
DecimalFromSliceOfToVec ==
    /\ res.op = "Decimal::from_slice"
    /\ res.input = ser[1].output

\* d is Normalized and written without a zero at the end of its fraction
NoTrailingFractionalZeros(d) ==
    /\ d[1] = "Normalized"
    /\ d[4] = 0 \/ (d[3] # <<>> /\ d[3][Len(d[3])] # 0)

\* two Normalized of one mantissa and one scale
SameMantissaAndScale(x, y) ==
    /\ x[3] = y[3]
    /\ x[4] = y[4]
    /\ x[3] # <<>> => x[2] = y[2]

\* C14: deserialize_decimal(serialize_decimal(d)) is a Decimal equal to d in
\* value, for NaN, the infinities, zero and every Normalized d; the mantissa
\* and the scale come back as they were when d has no zero at the end of its
\* fraction, and without such zeros otherwise (100.00 comes back as 100).
C14_DecimalRoundTrip ==
    DecimalFromSliceOfToVec =>
        LET d == log[1][1].d
        IN  /\ res.st = "ok"
            /\ Decimal_cmp(res.v, d) = 0
            /\ NoTrailingFractionalZeros(d) => SameMantissaAndScale(res.v, d)
            /\ d[1] = "Normalized" => NoTrailingFractionalZeros(res.v)

\* 1.00 has come back as 1
C14_Witness ==
    /\ DecimalFromSliceOfToVec
    /\ log[1][1].d = <<"Normalized", FALSE, <<1, 0, 0>>, 2>>
    /\ res.st = "ok"
    /\ res.v = <<"Normalized", FALSE, <<1>>, 0>>

\* C15: two Normalized of one value and different scales (10 and 10.0, 1.0
\* and 1.00) are written as the same bytes, and every zero, of any scale and
\* sign, as the one byte 0x15.
C15_DecimalCanonical ==
    DecimalPair(FALSE, FALSE) =>
        LET x == log[1][1].d
            y == log[2][1].d
        IN  /\ Decimal_cmp(x, y) = 0 => ser[1].output = ser[2].output
            /\ (x[1] = "Normalized" /\ Decimal_is_zero(x)) => ser[1].output = <<21>>

\* 1.0 and 1.00 have been written
C15_Witness ==
    /\ DecimalPair(FALSE, FALSE)
    /\ log[1][1].d = <<"Normalized", FALSE, <<1, 0>>, 1>>
    /\ log[2][1].d = <<"Normalized", FALSE, <<1, 0, 0>>, 2>>
    /\ ser[1].output = <<24, 2>>
    /\ ser[2].output = <<24, 2>>

\* deserialize_decimal of a Deserializer new on bytes
DecimalOf(bytes) == deserialize_decimal(Deserializer_new(bytes))

\* C16 (as claimed): serialize_decimal writes the same bytes whether the
\* reverse flag is set or not, and deserialize_decimal reads the bytes as
\* they are in either setting.
C16_DecimalNotFlipped ==
    /\ (Single(1) /\ log[1][1].T = DecimalType) =>
            ser[1].output = Decimal_to_vec(log[1][1].d)
    /\ res.op = "deserialize_decimal" =>
            (res.st = DecimalOf(res.input).st /\ res.v = DecimalOf(res.input).v)

\* C16 (amended): the decimal codec goes through the flip wrapper.  With the
\* reverse flag set serialize_decimal writes the complement of every byte it
\* writes with the flag clear, and deserialize_decimal complements every byte
\* it reads; a Decimal written and read with one setting comes back.
C16_DecimalFlipped ==
    /\ (Single(1) /\ log[1][1].T = DecimalType) =>
            ser[1].output = IF log[1][1].flip THEN NotUint(Decimal_to_vec(log[1][1].d))
                            ELSE Decimal_to_vec(log[1][1].d)
    /\ res.op = "deserialize_decimal" =>
            LET plain == DecimalOf(IF res.flip THEN NotUint(res.input) ELSE res.input)
            IN  /\ res.st = plain.st /\ res.v = plain.v
                /\ Len(de.input) = Len(plain.de.input)
                /\ res.flip = log[1][1].flip =>
                        (res.st = "ok" /\ Decimal_cmp(res.v, log[1][1].d) = 0)

\* -1.2 was written with the flag set, as the complement of 12 FC D7, and
\* read back with the flag set
C16_Witness ==
    /\ Single(1)
    /\ log[1][1].T = DecimalType
    /\ log[1][1].flip
    /\ log[1][1].d = <<"Normalized", TRUE, <<1, 2>>, 1>>
    /\ ser[1].output = <<237, 3, 40>>
    /\ res.op = "deserialize_decimal"
    /\ res.flip
    /\ res.v = <<"Normalized", TRUE, <<1, 2>>, 1>>

\* what decoding the value alone returns, and leaves unread: T::deserialize
\* of a Deserializer new on bytes, deserialize_decimal for a Decimal
DecodeOnly(bytes, T) ==
    IF T = DecimalType THEN DecimalOf(bytes) ELSE Deserialize(Deserializer_new(bytes), T)

\* C17: from_slice returns Err(TrailingCharacters) whenever the value decodes
\* and at least one byte of the input is left, and Ok(value) exactly when the
\* value decodes and the input is used up; so does Decimal::from_slice.
C17_TrailingCharacters ==
    res.op \in {"from_slice", "from_slice_bytes", "Decimal::from_slice"} =>
        LET t == DecodeOnly(res.input, res.T)
        IN  /\ (t.st = "ok" /\ t.de.input # <<>>) =>
                    (res.st = "err" /\ res.v[1] = "TrailingCharacters")
            /\ (res.st = "ok") <=> (t.st = "ok" /\ t.de.input = <<>>)
            /\ res.st = "ok" => res.v = t.v

\* from_slice::<()>(&[0]) has returned Err(TrailingCharacters)
C17_Witness ==
    /\ res.op = "from_slice_bytes"
    /\ res.T = <<"unit">>
    /\ res.input = <<0>>
    /\ res.st = "err"
    /\ res.v[1] = "TrailingCharacters"

\* from_slice was given the encoding of ser[1]'s value with one byte replaced
OneByteReplaced ==
    /\ res.op = "from_slice_bytes"
    /\ Len(res.input) = Len(ser[1].output)

\* the place of the byte replaced
ReplacedAt == CHOOSE p \in 1..Len(res.input) : res.input[p] # ser[1].output[p]

\* the error that a bad byte at place p of an encoding of a TamperTypes type
\* is to give: p is the bool, the Option tag, a marker of a sequence of u8, or
\* the prefix (p = 1) or a group trailer (p = 1 + 9g) of a byte string
TagError(T, p) ==
    CASE T[1] = "bool" /\ p = 1 -> "InvalidBoolEncoding"
      [] T[1] = "opt" /\ p = 1 -> "InvalidTagEncoding"
      [] T[1] = "seq" /\ p % 2 = 1 -> "InvalidSeqEncoding"
      [] T \in BytesTypes /\ p % 9 = 1 -> "InvalidBytesEncoding"
      [] OTHER -> "none"

\* the bytes accepted at place p
TagAccepted(T, p) == IF T \in BytesTypes /\ p > 1 THEN 1..9 ELSE {0, 1}

\* C18: a bool byte, an Option tag, a sequence marker and a byte-string
\* prefix accept 0 and 1 only, a group trailer 1..=9 only; any other byte v
\* there fails the decode with InvalidBoolEncoding(v), InvalidTagEncoding(v),
\* InvalidSeqEncoding(v), InvalidBytesEncoding(v), and an accepted byte does
\* not.
C18_TagValidation ==
    (OneByteReplaced /\ TagError(res.T, ReplacedAt) # "none") =>
        LET T == res.T
            p == ReplacedAt
            v == res.input[p]
        IN  IF v \notin TagAccepted(T, p)
            THEN res.st = "err" /\ res.v = <<TagError(T, p), v>>
            ELSE ~(res.st = "err" /\ res.v[1] = TagError(T, p))

\* from_slice::<Vec<u8>>(&[1, 0x01, 2]) has returned Err(InvalidSeqEncoding(2))
C18_Witness ==
    /\ OneByteReplaced
    /\ res.T = <<"seq", <<"u8">>>>
    /\ res.input = <<1, 1, 2>>
    /\ res.st = "err"
    /\ res.v = <<"InvalidSeqEncoding", 2>>

\* C19: serialize_map returns Err(NotSupported("map")) and writes nothing,
\* and deserialize_map returns Err(NotSupported("map")) and reads nothing,
\* for every map, every input and either flip setting.
C19_MapRejected ==
    /\ (Single(1) /\ log[1][1].T = MapType) =>
            /\ ser[1].result = <<"Err", <<"NotSupported", "map">>>>
            /\ ser[1].output = <<>>
    /\ (res.op = "deserialize" /\ res.T = MapType) =>
            /\ res.st = "err"
            /\ res.v = <<"NotSupported", "map">>
            /\ de.input = res.input

\* a map of one entry was refused by a Serializer with the flag set, and a
\* map was then asked of a Deserializer
C19_Witness ==
    /\ Single(1)
    /\ log[1][1].T = MapType
    /\ Len(log[1][1].d) = 1
    /\ log[1][1].flip
    /\ Failed(ser[1])
    /\ res.op = "deserialize"
    /\ res.st = "err"

\* C20 (as claimed): serializing a variant whose index is above 255 returns
\* an error to the caller, and a variant of index 0..=255 is written as its
\* index in one byte, then its payload.
C20_VariantIndexError ==
    (Single(1) /\ log[1][1].T = ManyVariants /\ ~log[1][1].flip) =>
        LET d == log[1][1].d
        IN  IF d[1] > U8_MAX THEN ser[1].result[1] = "Err"
            ELSE /\ ser[1].result = <<"Ok">>
                 /\ Len(ser[1].output) >= 1
                 /\ ser[1].output[1] = d[1]

\* C21: skip_bytes does what decoding a byte string and dropping it does.  On
\* whatever input and with either flip bit it ends as read_bytes ends: both
\* return Ok, and then skip_bytes returns the length of the bytes read_bytes
\* returns and leaves the cursor where read_bytes leaves it, or both return
\* the same InvalidBytesEncoding(v), or both run out of input.  On the
\* encoding of a byte string b, read with the flip bit it was written with,
\* skip_bytes returns Ok(len(b)) and leaves nothing of that encoding unread.
C21_SkipBytes ==
    res.op = "skip_bytes" =>
        LET rd == read_bytes(res.before)
        IN  /\ res.st = rd.st
            /\ res.st = "ok" =>
                    /\ res.v = Len(rd.v)
                    /\ Deserializer_position(de) = Deserializer_position(rd.de)
                    /\ de = rd.de
            /\ res.st = "err" =>
                    /\ res.v = rd.v
                    /\ res.v[1] = "InvalidBytesEncoding"
            /\ (/\ res.n = 1
                /\ log[1][1].T \in BytesTypes
                /\ res.input = ser[1].output
                /\ res.before.flip = log[1][1].flip) =>
                    /\ res.st = "ok"
                    /\ res.v = Len(log[1][1].d)
                    /\ Single(1) => Deserializer_position(de) = Len(ser[1].output)

\* a byte string of two groups written with the flag set was skipped by a
\* Deserializer with the flag set
C21_Witness ==
    /\ res.op = "skip_bytes"
    /\ res.n = 1
    /\ log[1][1].T = <<"bytes">>
    /\ log[1][1].flip
    /\ res.before.flip
    /\ res.input = ser[1].output
    /\ res.st = "ok"
    /\ res.v = 9

\* a trailer that is no trailer made skip_bytes return the error read_bytes
\* returns, the byte un-flipped
C21_WitnessMalformed ==
    /\ res.op = "skip_bytes"
    /\ res.before.flip
    /\ res.st = "err"
    /\ res.v = <<"InvalidBytesEncoding", 10>>

\* the values of log[1] can be compared with what a decode returns: ser[1]
\* wrote them all, and none is a float, which is written normalised
Comparable == ~Failed(ser[1]) /\ \A j \in 1..Len(log[1]) : log[1][j].T \notin FloatTypes

\* the Deserializer was constructed on what ser[1] wrote and has decoded every
\* value of log[1], each with the flip bit that value was written with, and
\* nothing else
SameToggles ==
    /\ Live
    /\ res.input = ser[1].output
    /\ Len(res.hist) = Len(log[1])
    /\ \A j \in 1..Len(log[1]) :
            /\ res.hist[j].op = "deserialize_value"
            /\ res.hist[j].flip = log[1][j].flip

\* C22: fields written through one Serializer, set_reverse called to any
\* value before each, are all recovered in order by a Deserializer driven
\* over the bytes with the same set_reverse calls and the same types, and the
\* Deserializer then has nothing remaining.
C22_ToggledRoundTrip ==
    (SameToggles /\ Comparable) =>
        /\ \A j \in 1..Len(log[1]) :
                /\ res.hist[j].st = "ok"
                /\ res.hist[j].v = log[1][j].d
        /\ ~Deserializer_has_remaining(de)

\* two fields, the first written with the flag set and the second with it
\* cleared, were read back with the same flags
C22_Witness ==
    /\ SameToggles
    /\ Comparable
    /\ Len(log[1]) = 2
    /\ log[1][1].flip
    /\ ~log[1][2].flip
    /\ log[1][1].T = <<"str">>
    /\ log[1][1].d = <<97>>
    /\ log[1][2].T = <<"i32">>
    /\ res.hist[2].v = log[1][2].d

\* the bytes, each XORed with 0xFF
Complement(bytes) == [i \in 1..Len(bytes) |-> (255 - bytes[i]) % 256]

\* where the padding of the last group of the encoding out of a byte string
\* of len bytes lies
PaddingOf(len, out) ==
    IF len % BYTES_CHUNK_SIZE = 0 THEN {}
    ELSE (Len(out) - BYTES_CHUNK_SIZE + (len % BYTES_CHUNK_SIZE))..(Len(out) - 1)

\* C23: what a Serializer with the reverse flag set writes for a value that
\* is no Decimal is, byte for byte, the complement of what to_vec writes for
\* it with the flag clear, and as long: tags, variant indices, trailers and
\* the bytes of integers included; the padding of a byte string is 0xFF.
C23_FlipIsComplement ==
    (Single(1) /\ log[1][1].T # DecimalType /\ log[1][1].flip /\ ~Failed(ser[1])) =>
        LET T == log[1][1].T
            d == log[1][1].d
            plain == to_vec(T, d)
            out == ser[1].output
        IN  /\ Len(out) = Len(plain)
            /\ out = Complement(plain)
            /\ \A i \in 1..Len(out) : out[i] = 255 - plain[i]
            /\ T \in BytesTypes => \A p \in PaddingOf(Len(d), out) : out[p] = 255

\* a byte string of one byte was written with the flag set: prefix, byte,
\* seven bytes of padding 0xFF and the trailer, all complemented
C23_Witness ==
    /\ Single(1)
    /\ log[1][1].T = <<"bytes">>
    /\ log[1][1].flip
    /\ log[1][1].d = <<1>>
    /\ ser[1].output = <<254, 254, 255, 255, 255, 255, 255, 255, 255, 254>>
    /\ to_vec(<<"bytes">>, <<1>>) = <<1, 1, 0, 0, 0, 0, 0, 0, 0, 1>>

\* a decimal numeral without the zeros at its ends, and the power of ten its
\* last digit left stands for when the last digit of s stands for 10^exp
Significant(s, exp) ==
    LET nz == {i \in 1..Len(s) : s[i] # 0}
        lo == CHOOSE i \in nz : \A j \in nz : i <= j
        hi == CHOOSE i \in nz : \A j \in nz : i >= j
    IN  IF nz = {} THEN <<<<>>, 0>> ELSE <<SubSeq(s, lo, hi), exp + Len(s) - hi>>

\* the base-100 digits a significand holds: byte 2x + 1, or the last 2x
SignificandDigits(sig) == [k \in 1..Len(sig) |-> sig[k] \div 2]

\* these digits as a decimal numeral, two digits each
Decimal10(digits) ==
    [i \in 1..(2 * Len(digits)) |->
        IF i % 2 = 1 THEN digits[(i + 1) \div 2] \div 10 ELSE digits[i \div 2] % 10]

IsProperPrefix(a, b) == Len(a) < Len(b) /\ a = SubSeq(b, 1, Len(a))

\* the non-zero Normalized values among the first values the Serializers
\* were given
NonZeroDecimals ==
    {log[i][1].d : i \in {j \in Inst : /\ log[j] # <<>>
                                       /\ log[j][1].T = DecimalType
                                       /\ log[j][1].d[1] = "Normalized"
                                       /\ ~Decimal_is_zero(log[j][1].d)}}

\* C24: for a non-zero Normalized d, decimal_e_m(d) is an exponent e and a
\* significand of 1 to 15 bytes, every byte but the last odd (2 * digit + 1),
\* the last even and not 0 (2 * digit, digit >= 1), the first digit at least
\* 1, the digits in 0..99, and |d| is the sum of digit_i * 100^(e - i); no
\* significand is a proper prefix of another.
C24_DecimalEM ==
    /\ \A d \in NonZeroDecimals :
            LET e == decimal_e_m(d)[1]
                sig == decimal_e_m(d)[2]
                n == Len(sig)
                digits == SignificandDigits(sig)
            IN  /\ n \in 1..15
                /\ \A k \in 1..(n - 1) : sig[k] % 2 = 1
                /\ sig[n] % 2 = 0 /\ sig[n] # 0
                /\ \A k \in 1..n : sig[k] \in 0..255 /\ digits[k] \in 0..99
                /\ digits[1] >= 1 /\ digits[n] >= 1
                /\ Significant(Decimal10(digits), 2 * (e - n)) = Significant(d[3], 0 - d[4])
    /\ \A x, y \in NonZeroDecimals :
            ~IsProperPrefix(decimal_e_m(x)[2], decimal_e_m(y)[2])

\* 1.23 and 1.2 were serialized: exponent 1 both, significands 03 2e and
\* 03 28, which agree on their first byte only
C24_Witness ==
    /\ <<"Normalized", FALSE, <<1, 2, 3>>, 2>> \in NonZeroDecimals
    /\ <<"Normalized", FALSE, <<1, 2>>, 1>> \in NonZeroDecimals
    /\ decimal_e_m(<<"Normalized", FALSE, <<1, 2, 3>>, 2>>) = <<1, <<3, 46>>>>
    /\ decimal_e_m(<<"Normalized", FALSE, <<1, 2>>, 1>>) = <<1, <<3, 40>>>>

\* the operations recorded in res.hist follow one another: each starts where
\* the one before it ended, the first at 0, and the cursor is where the last
\* one ended
Chained ==
    LET h == res.hist
    IN  /\ \A j \in 1..Len(h) : h[j].from = (IF j = 1 THEN 0 ELSE h[j - 1].to)
        /\ Deserializer_position(de) = (IF h = <<>> THEN 0 ELSE h[Len(h)].to)

\* C25: position() plus the bytes remaining is the length of the input the
\* Deserializer was constructed on, and what remains is the end of that
\* input; position() is 0 at first, no decode, skip_bytes, advance or
\* set_reverse makes it smaller, a successful decode of a value adds the
\* length of the encoding of that value to it, and has_remaining() is true
\* exactly when position() is less than the length of the input.
C25_CursorAccounting ==
    Live =>
        LET pos == Deserializer_position(de)
            len == Len(res.input)
        IN  /\ de.input_len = len
            /\ pos + Len(de.input) = len
            /\ pos \in 0..len
            /\ de.input = SubSeq(res.input, pos + 1, len)
            /\ res.op = "new" => pos = 0
            /\ Chained
            /\ \A j \in 1..Len(res.hist) : res.hist[j].from <= res.hist[j].to
            /\ res.op = "set_reverse" => pos = Deserializer_position(res.before)
            /\ (res.op = "deserialize_value" /\ res.st = "ok") =>
                    pos = Deserializer_position(res.before) + Len(to_vec(res.T, res.v))
            /\ (res.op = "advance" /\ res.st = "ok") =>
                    pos = Deserializer_position(res.before) + res.cnt
            /\ Deserializer_has_remaining(de) <=> pos < len

\* the first of two fields was decoded: the cursor stands after the 10 bytes
\* of its encoding, with the 4 bytes of the second remaining
C25_Witness ==
    /\ Live
    /\ Len(log[1]) = 2
    /\ res.op = "deserialize_value"
    /\ res.st = "ok"
    /\ res.T = <<"str">>
    /\ res.v = <<97>>
    /\ res.input = ser[1].output
    /\ Deserializer_position(res.before) = 0
    /\ Deserializer_position(de) = 10
    /\ Len(de.input) = 4
    /\ Deserializer_has_remaining(de)

\* C26: the flip bit of a new Serializer or Deserializer is false, so to_vec
\* and from_slice work unflipped; serializing a value, decoding one,
\* skip_bytes and advance leave the flip bit as it is, whether they succeed
\* or fail; set_reverse sets the flip bit, writes no byte and does not move
\* the cursor.
C26_FlipFrame ==
    /\ ~Serializer_new.flip
    /\ ~Deserializer_new(ser[1].output).flip
    /\ res.op \in {"from_slice", "from_slice_bytes", "Decimal::from_slice"} => ~de.flip
    /\ \A i \in Inst : \A f \in BOOLEAN :
            /\ Serializer_set_reverse(ser[i], f) = [ser[i] EXCEPT !.flip = f]
            /\ log[i] # <<>> =>
                    LET e == log[i][Len(log[i])]
                        s == Serializer_set_reverse(Serializer_new, f)
                    IN  IF e.T = DecimalType THEN serialize_decimal(s, e.d).flip = f
                        ELSE Serialize(s, e.T, e.d).flip = f
    /\ res.op = "new" => ~de.flip
    /\ res.op \in {"deserialize_value", "skip_bytes", "advance"} =>
            de.flip = res.before.flip
    /\ res.op \in {"deserialize_decimal", "deserialize"} => de.flip = res.flip
    /\ res.op = "set_reverse" =>
            /\ de.input = res.before.input
            /\ de.input_len = res.before.input_len
            /\ Deserializer_position(de) = Deserializer_position(res.before)
            /\ \A f \in BOOLEAN :
                    Deserializer_set_reverse(res.before, f) = [res.before EXCEPT !.flip = f]

\* a decode by a Deserializer with the flag set failed, and the flag is
\* still set
C26_Witness ==
    /\ res.op = "deserialize_value"
    /\ res.st = "err"
    /\ res.before.flip
    /\ de.flip
    /\ log[1][1].flip
    /\ ser[1].flip

\* from_slice was given the encoding of a byte string or a str with one of
\* the padding bytes of its last group replaced
PaddingReplaced ==
    /\ OneByteReplaced
    /\ res.T \in BytesTypes
    /\ ReplacedAt \in PaddingOf(Len(log[1][1].d), ser[1].output)

\* C27: the decoder of byte strings does not look at the padding.  An input
\* that differs from the encoding of a byte string in one padding byte of the
\* last group decodes, all of it, to that byte string, as the encoding
\* itself does; encoding the decoded value again gives the encoding and not
\* the input.
C27_PaddingIgnored ==
    PaddingReplaced =>
        LET T == res.T
            canonical == from_slice(ser[1].output, T)
        IN  /\ res.st = "ok"
            /\ res.v = log[1][1].d
            /\ canonical.st = "ok" /\ canonical.v = res.v
            /\ res.input # ser[1].output
            /\ to_vec(T, res.v) = ser[1].output
            /\ to_vec(T, res.v) # res.input

\* 01 01 FF 00 00 00 00 00 00 01 decoded to the byte string 01, whose
\* encoding has 00 in the place of FF
C27_Witness ==
    /\ PaddingReplaced
    /\ res.T = <<"bytes">>
    /\ res.input = <<1, 1, 255, 0, 0, 0, 0, 0, 0, 1>>
    /\ res.st = "ok"
    /\ res.v = <<1>>
    /\ to_vec(<<"bytes">>, res.v) = <<1, 1, 0, 0, 0, 0, 0, 0, 0, 1>>

\* the errors of a byte that is no bool, no tag, no marker, no prefix and no
\* trailer
ByteErrors ==
    {"InvalidBoolEncoding", "InvalidTagEncoding", "InvalidSeqEncoding", "InvalidBytesEncoding"}

\* a decode run on the Deserializer returned one of these errors or
\* InvalidCharEncoding
DecodeFailed ==
    /\ res.op = "deserialize_value"
    /\ res.st = "err"
    /\ res.v[1] \in ByteErrors \cup {"InvalidCharEncoding"}

\* the bytes of the input as a Deserializer with flip bit f reads them
Unflipped(bytes, f) == IF f THEN [i \in 1..Len(bytes) |-> 255 - bytes[i]] ELSE bytes

\* C28: a decode that fails with InvalidBoolEncoding, InvalidTagEncoding,
\* InvalidSeqEncoding, InvalidBytesEncoding or InvalidCharEncoding leaves the
\* cursor after the offending byte, which is the last byte read: 1 byte
\* further for a bad bool, Option tag or byte-string prefix, the prefix and
\* every group of 9 read further for a bad trailer, 4 bytes further for a bad
\* char; the value in the error is that byte, or these 4 bytes, un-flipped
\* when the flip bit is set.
C28_NoRewind ==
    DecodeFailed =>
        LET from == Deserializer_position(res.before)
            pos == Deserializer_position(de)
            read == pos - from
            seen == Unflipped(res.input, res.before.flip)
            T == res.T
        IN  /\ read >= 1
            /\ de.input = SubSeq(res.input, pos + 1, Len(res.input))
            /\ res.v[1] \in ByteErrors => res.v[2] = seen[pos]
            /\ res.v[1] = "InvalidCharEncoding" =>
                    /\ read >= 4
                    /\ res.v[2] = SubSeq(seen, pos - 3, pos)
                    /\ char_from_u32(res.v[2]) = -1
            /\ T \in {<<"bool">>, <<"opt", <<"u8">>>>} =>
                    (read = 1 /\ seen[pos] \notin {0, 1})
            /\ T = <<"char">> => read = 4
            /\ T \in BytesTypes =>
                    /\ read % BYTES_CHUNK_UNIT_SIZE = 1
                    /\ seen[pos] \notin (IF read = 1 THEN {0, 1} ELSE 1..9)
                    /\ \A g \in 1..((read - 1) \div BYTES_CHUNK_UNIT_SIZE - 1) :
                            seen[from + 1 + BYTES_CHUNK_UNIT_SIZE * g] = 9
            /\ T = <<"seq", <<"u8">>>> => (read % 2 = 1 /\ seen[pos] \notin {0, 1})

\* a byte string of two groups written with the flag set, the trailer of its
\* second group replaced by F5, was decoded with the flag set: the error
\* holds 0A and the cursor stands after the 19 bytes read
C28_Witness ==
    /\ DecodeFailed
    /\ res.T = <<"bytes">>
    /\ res.before.flip
    /\ Len(res.input) = 19
    /\ res.input[19] = 245
    /\ res.v = <<"InvalidBytesEncoding", 10>>
    /\ Deserializer_position(res.before) = 0
    /\ Deserializer_position(de) = 19

=============================================================================
